---- MODULE Spec2Model ----
(***************************************************************************)
(* ReportSys: the report execution engine.                                 *)
(*                                                                         *)
(*   SpecRanges  buildObjectIdRanges applied to bounded inputs             *)
(*               (apps/worker/src/partitioner.ts)                          *)
(*   SpecReduce  one call of runPartitionedReduce: the range workers, the  *)
(*               shared cursor, the accumulator and the merge              *)
(*               (apps/worker/src/job-processor.ts, reduce-engine.ts)      *)
(*   Spec        the report job processor: one job from its intake through *)
(*               every delivery of its queue message, with the jobs store, *)
(*               the read endpoint, the source collection and the storage  *)
(*               adapter (apps/worker/src/job-processor.ts)                *)
(*   SpecAccumulator  a sequence of consume calls on one accumulator       *)
(*               (apps/worker/src/reduce-engine.ts)                        *)
(*   SpecTicker  the schedule store, the intake's schedule routes and two  *)
(*               schedule tickers (apps/worker/src/scheduler.ts,           *)
(*               apps/api schedule routes)                                 *)
(*   SpecShutdown  the shutdown closure of the worker process and its      *)
(*               signal handlers (apps/worker/src/index.ts)                *)
(*   SpecSanitize  one call of sanitizeFilters                             *)
(*   SpecIntake  the intake's validation of report and schedule bodies,    *)
(*               the stored schedules and the jobs made from them          *)
(*               (apps/api routes, apps/worker/src/scheduler.ts)           *)
(*   SpecSnapshot  one call of writeSnapshot and the read back of its file *)
(*               with snapshotRows (apps/worker/src/helpers.ts)            *)
(*   SpecTickerFair  SpecTicker with every await of a running tick         *)
(*               answered                                                  *)
(*   SpecLifecycle  start, stop, the interval timer and tickNow of one     *)
(*               ticker (apps/worker/src/scheduler.ts)                     *)
(*   SpecEnqueue  the insert of a job document and the enqueue of its      *)
(*               message, by the ticker and by POST /v1/reports, with      *)
(*               store and queue failures                                  *)
(*   SpecMultipass  the probe of the source's largest identifier and the   *)
(*               passes of a multi-format archive over a growing source    *)
(*               (apps/worker/src/job-processor.ts)                        *)
(*                                                                         *)
(* Identifiers (ObjectId, 96 bits in the program) are modelled by their    *)
(* integer value in 0 .. IdSpace-1; IdSpace stands for 2^96.               *)
(***************************************************************************)
EXTENDS Integers, Sequences, FiniteSets, TLC

VARIABLES
    \* ---- SpecRanges: one call of buildObjectIdRanges
    rgPc,          \* "input" | "done"
    rgMin,         \* minId argument
    rgMax,         \* maxId argument
    rgChunks,      \* requestedChunks argument
    rgResult,      \* the returned ObjectIdRange[]
    \* ---- SpecReduce: one call of runPartitionedReduce
    rdCall,        \* "init" | "pending" | "returned" | "rejected"
    rdDocs,        \* the matching documents of the source collection, by _id
    rdSpec,        \* spec: ReduceSpec
    rdChunksReq,   \* partitionSpec?.chunks ?? partitionDefaultChunks
    rdMaxConc,     \* partitionMaxConcurrency
    rdV2,          \* options.useStreamingAccumulator
    rdMaxGroups,   \* options.maxGroups
    ranges,        \* const ranges
    cursor,        \* let cursor
    chunkMetrics,  \* const chunkMetrics
    partialRows,   \* const partialRows
    accumulator,   \* the streaming accumulator's state (Map key -> group state)
    workers,       \* the runChunkWorker() activations
    aggLog,        \* the collection.aggregate() calls issued: <<range index, worker>>
    rdResult,      \* the ReduceExecutionResult returned
    \* ---- Spec: the report job processor, one job and its queue message
    cfg,           \* deps.config and the storage adapter's mode and policy
    jobDoc,        \* the job's document in the jobs collection, or NoJob
    msg,           \* the queue message: its state and attemptsMade
    pc,            \* the processor's position in the current activation
    report,        \* const report (the document findOne returned)
    filters,       \* const filters (sanitized)
    rowSource,     \* let rows: "none" (null) | "raw" | "reduced"
    pending,       \* the source reads the generated stream issues when consumed
    snapshotPath,  \* let snapshotPath ("" for null)
    snapshotFile,  \* the activation's snapshot file exists in reportTmpDir
    uploadedArtifact, \* const uploadedArtifact
    actLog,        \* what the activation did: status writes, hello, source queries, upload
    raised,        \* the first error raised in the activation after the running write
    caught,        \* the error the processor's catch block received
    outcome,       \* how the activation's promise settled
    \* ---- SpecAccumulator: one accumulator of createReduceAccumulator
    acMaxGroups,   \* options.maxGroups
    acState,       \* const state (Map key -> group state)
    acCalls,       \* consume calls made so far
    acThrows,      \* consume calls that threw so far
    acLast,        \* the last consume call: its row and whether it threw
    \* ---- SpecTicker: the schedule store, the intake's schedule routes and
    \* the schedule tickers of the worker processes
    clock,         \* new Date(), in minutes; one clock for every process
    schedules,     \* schedulesCollection, by _id
    patches,       \* the PATCH requests between their findOne and their updateOne
    running,       \* let running, per ticker
    calls,         \* the tickNow() calls of each ticker and their position
    lastCall,      \* per ticker, what the last tickNow() did since its tick began
    fired,         \* the conditional updates that matched: <<schedule, due value, ticker>>
    scheduledJobs, \* the job documents the tickers inserted
    enqueued,      \* the queue messages the tickers added
    \* ---- SpecShutdown: the shutdown of one worker process
    shuttingDown,  \* let shuttingDown
    shutdownPc,    \* the await the first shutdown() call is at
    shutdownLog,   \* the steps of shutdown started and completed, in order
    quitsDone,     \* the Redis connections whose quit() has resolved
    activeJobs,    \* the jobs the worker is processing
    timerArmed,    \* the ticker's interval timer
    shutdownCalls, \* the calls of shutdown() made so far
    firstBySignal, \* whether a signal handler made the call that runs the steps
    exited,        \* process.exit(0) was called
    \* ---- SpecSanitize: one call of sanitizeFilters
    sanPc,         \* before or after the call
    sanInput,      \* the argument
    sanResult,     \* the value returned
    \* ---- SpecIntake: the format fields the intake and the ticker store
    inSchedules, \* schedule id -> the stored format fields, or NoStored
    inPatches, \* PATCH request -> where it stands and the state it will write
    inDue, \* the schedule document a ticker has read, or NoStored
    inJobs,\* the format fields of the stored jobs
    \* ---- the NDJSON snapshot file (SpecSnapshot)
    snPc, \* position of writeSnapshot / snapshotRows
    snRows, \* the rows the caller passes, in order
    snMaxBytes, \* maxBytes of the call
    snIndex, \* rows consumed from the iterable so far
    snBytes, \* the local bytes
    snRowCount, \* the local rowCount
    snExists, \* whether a file exists at the snapshot path
    snLines, \* the lines the writer has been given
    snResult, \* how the promise of writeSnapshot settled
    snRead, \* the rows snapshotRows has yielded
    snRm,\* how the delete of the catch block went: "none", "ok" or "failed"
    \* ---- start, stop and tickNow of one schedule ticker (SpecLifecycle)
    lcTimer, \* let timer is not null
    lcIntervals, \* the intervals registered with setInterval and not cleared
    lcRunning, \* let running
    lcTick, \* the tick in flight: its position, who called tickNow, its passes
    lcStart, \* the start() call awaiting its tick: "idle", "awaiting", "resolved", "rejected"
    lcLog,\* what the ticker did, in order
    \* ---- job creation and enqueue with failing stores (SpecEnqueue)
    eqNextRunAt, \* nextRunAt of the one schedule, as the number of its occurrence
    eqOps, \* the operations: passes of the tick loop and POST /v1/reports requests
    eqFired, \* the conditional advances that matched: operation and occurrence
    eqJobs, \* the documents of the jobs collection
    eqQueue,\* the messages of the queue
    \* ---- the passes of one archive-multipass job over a growing collection (SpecMultipass)
    mpDocs, \* the identifiers of the documents of the source collection
    mpPc, \* "idle", "probe", "passes" or "done"
    mpMaxObjectId, \* const maxObjectId, NoId for null
    mpPasses \* per pass started so far, the identifiers of the rows its cursor yields

rangeVars == <<rgPc, rgMin, rgMax, rgChunks, rgResult>>

reduceInputs == <<rdDocs, rdSpec, rdChunksReq, rdMaxConc, rdV2, rdMaxGroups>>

reduceVars == <<rdCall, reduceInputs, ranges, cursor, chunkMetrics, partialRows,
                accumulator, workers, aggLog, rdResult>>

jobVars == <<cfg, jobDoc, msg, pc, report, filters, rowSource, pending, snapshotPath,
             snapshotFile, uploadedArtifact, actLog, raised, caught, outcome>>

accVars == <<acMaxGroups, acState, acCalls, acThrows, acLast>>

tickVars == <<clock, schedules, patches, running, calls, lastCall, fired,
              scheduledJobs, enqueued>>

shutVars == <<shuttingDown, shutdownPc, shutdownLog, quitsDone, activeJobs,
              timerArmed, shutdownCalls, firstBySignal, exited>>

sanVars == <<sanPc, sanInput, sanResult>>

inVars == <<inSchedules, inPatches, inDue, inJobs>>

snapVars == <<snPc, snRows, snMaxBytes, snIndex, snBytes, snRowCount, snExists, snLines, snResult, snRead, snRm>>

lcVars == <<lcTimer, lcIntervals, lcRunning, lcTick, lcStart, lcLog>>

eqVars == <<eqNextRunAt, eqOps, eqFired, eqJobs, eqQueue>>

mpVars == <<mpDocs, mpPc, mpMaxObjectId, mpPasses>>

vars == <<rangeVars, reduceVars, jobVars, accVars, tickVars, shutVars, sanVars, inVars, snapVars, lcVars, eqVars, mpVars>>

\* What the actions of one specification leave alone: the other components.
exceptRanges == <<reduceVars, jobVars, accVars, tickVars, shutVars, sanVars, inVars, snapVars, lcVars, eqVars, mpVars>>

exceptReduce == <<rangeVars, jobVars, accVars, tickVars, shutVars, sanVars, inVars, snapVars, lcVars, eqVars, mpVars>>

exceptJob == <<rangeVars, reduceVars, accVars, tickVars, shutVars, sanVars, inVars, snapVars, lcVars, eqVars, mpVars>>

exceptAcc == <<rangeVars, reduceVars, jobVars, tickVars, shutVars, sanVars, inVars, snapVars, lcVars, eqVars, mpVars>>

exceptTick == <<rangeVars, reduceVars, jobVars, accVars, shutVars, sanVars, inVars, snapVars, lcVars, eqVars, mpVars>>

exceptShutdown == <<rangeVars, reduceVars, jobVars, accVars, tickVars, sanVars, inVars, snapVars, lcVars, eqVars, mpVars>>

exceptSanitize == <<rangeVars, reduceVars, jobVars, accVars, tickVars, shutVars, inVars, snapVars, lcVars, eqVars, mpVars>>

exceptIntake ==
    <<rangeVars, reduceVars, jobVars, accVars, tickVars, shutVars, sanVars, snapVars, lcVars, eqVars, mpVars>>

exceptSnapshot ==
    <<rangeVars, reduceVars, jobVars, accVars, tickVars, shutVars, sanVars, inVars, lcVars, eqVars, mpVars>>

exceptLifecycle ==
    <<rangeVars, reduceVars, jobVars, accVars, tickVars, shutVars, sanVars, inVars, snapVars, eqVars, mpVars>>

exceptEnqueue ==
    <<rangeVars, reduceVars, jobVars, accVars, tickVars, shutVars, sanVars, inVars, snapVars, lcVars, mpVars>>

exceptMultipass ==
    <<rangeVars, reduceVars, jobVars, accVars, tickVars, shutVars, sanVars, inVars, snapVars, lcVars, eqVars>>

\* ---- a component no specification runs stays in its idle state

RangesIdle ==
    /\ rgPc = "idle"
    /\ rgMin = 0
    /\ rgMax = 0
    /\ rgChunks = 0
    /\ rgResult = <<>>

JobIdle ==
    /\ cfg = <<>>
    /\ jobDoc = <<>>
    /\ msg = <<>>
    /\ pc = "off"
    /\ report = <<>>
    /\ filters = <<>>
    /\ rowSource = "none"
    /\ pending = <<>>
    /\ snapshotPath = ""
    /\ snapshotFile = FALSE
    /\ uploadedArtifact = <<>>
    /\ actLog = <<>>
    /\ raised = ""
    /\ caught = ""
    /\ outcome = <<>>

ReduceIdle ==
    /\ rdCall = "idle"
    /\ rdDocs = <<>>
    /\ rdSpec = <<>>
    /\ rdChunksReq = 0
    /\ rdMaxConc = 0
    /\ rdV2 = FALSE
    /\ rdMaxGroups = 0
    /\ ranges = <<>>
    /\ cursor = 0
    /\ chunkMetrics = <<>>
    /\ partialRows = <<>>
    /\ accumulator = <<>>
    /\ workers = <<>>
    /\ aggLog = <<>>
    /\ rdResult = <<>>

AccIdle ==
    /\ acMaxGroups = 0
    /\ acState = <<>>
    /\ acCalls = 0
    /\ acThrows = 0
    /\ acLast = <<>>

TickIdle ==
    /\ clock = 0
    /\ schedules = <<>>
    /\ patches = <<>>
    /\ running = <<>>
    /\ calls = <<>>
    /\ lastCall = <<>>
    /\ fired = {}
    /\ scheduledJobs = {}
    /\ enqueued = {}

ShutdownIdle ==
    /\ shuttingDown = FALSE
    /\ shutdownPc = "running"
    /\ shutdownLog = <<>>
    /\ quitsDone = {}
    /\ activeJobs = 0
    /\ timerArmed = FALSE
    /\ shutdownCalls = 0
    /\ firstBySignal = FALSE
    /\ exited = FALSE

SanitizeIdle ==
    /\ sanPc = "idle"
    /\ sanInput = <<>>
    /\ sanResult = <<>>

IntakeIdle ==
    /\ inSchedules = <<>>
    /\ inPatches = <<>>
    /\ inDue = <<>>
    /\ inJobs = {}

SnapshotIdle ==
    /\ snPc = "idle"
    /\ snRows = <<>>
    /\ snMaxBytes = 0
    /\ snIndex = 0
    /\ snBytes = 0
    /\ snRowCount = 0
    /\ snExists = FALSE
    /\ snLines = <<>>
    /\ snResult = [kind |-> "none", error |-> "", rowCount |-> 0, bytes |-> 0]
    /\ snRead = <<>>
    /\ snRm = "none"

LifecycleIdle ==
    /\ lcTimer = FALSE
    /\ lcIntervals = 0
    /\ lcRunning = FALSE
    /\ lcTick = [pc |-> "none", origin |-> "none", passes |-> 0]
    /\ lcStart = "idle"
    /\ lcLog = <<>>

EnqueueIdle ==
    /\ eqNextRunAt = 0
    /\ eqOps = <<>>
    /\ eqFired = <<>>
    /\ eqJobs = <<>>
    /\ eqQueue = <<>>

MultipassIdle ==
    /\ mpDocs = {}
    /\ mpPc = "idle"
    /\ mpMaxObjectId = 0
    /\ mpPasses = <<>>

IdleExceptRanges == ReduceIdle /\ JobIdle /\ AccIdle /\ TickIdle /\ ShutdownIdle /\ SanitizeIdle /\ IntakeIdle /\ SnapshotIdle /\ LifecycleIdle /\ EnqueueIdle /\ MultipassIdle

IdleExceptReduce == RangesIdle /\ JobIdle /\ AccIdle /\ TickIdle /\ ShutdownIdle /\ SanitizeIdle /\ IntakeIdle /\ SnapshotIdle /\ LifecycleIdle /\ EnqueueIdle /\ MultipassIdle

IdleExceptJob == RangesIdle /\ ReduceIdle /\ AccIdle /\ TickIdle /\ ShutdownIdle /\ SanitizeIdle /\ IntakeIdle /\ SnapshotIdle /\ LifecycleIdle /\ EnqueueIdle /\ MultipassIdle

IdleExceptAcc == RangesIdle /\ ReduceIdle /\ JobIdle /\ TickIdle /\ ShutdownIdle /\ SanitizeIdle /\ IntakeIdle /\ SnapshotIdle /\ LifecycleIdle /\ EnqueueIdle /\ MultipassIdle

IdleExceptTick == RangesIdle /\ ReduceIdle /\ JobIdle /\ AccIdle /\ ShutdownIdle /\ SanitizeIdle /\ IntakeIdle /\ SnapshotIdle /\ LifecycleIdle /\ EnqueueIdle /\ MultipassIdle

IdleExceptShutdown == RangesIdle /\ ReduceIdle /\ JobIdle /\ AccIdle /\ TickIdle /\ SanitizeIdle /\ IntakeIdle /\ SnapshotIdle /\ LifecycleIdle /\ EnqueueIdle /\ MultipassIdle

IdleExceptSanitize ==
    RangesIdle /\ ReduceIdle /\ JobIdle /\ AccIdle /\ TickIdle /\ ShutdownIdle /\ IntakeIdle /\ SnapshotIdle /\ LifecycleIdle /\ EnqueueIdle /\ MultipassIdle

IdleExceptIntake ==
    RangesIdle /\ JobIdle /\ ReduceIdle /\ AccIdle /\ TickIdle /\ ShutdownIdle /\ SanitizeIdle /\ SnapshotIdle /\ LifecycleIdle /\ EnqueueIdle /\ MultipassIdle

IdleExceptSnapshot ==
    RangesIdle /\ JobIdle /\ ReduceIdle /\ AccIdle /\ TickIdle /\ ShutdownIdle /\ SanitizeIdle /\ IntakeIdle /\ LifecycleIdle /\ EnqueueIdle /\ MultipassIdle

IdleExceptLifecycle ==
    RangesIdle /\ JobIdle /\ ReduceIdle /\ AccIdle /\ TickIdle /\ ShutdownIdle /\ SanitizeIdle /\ IntakeIdle /\ SnapshotIdle /\ EnqueueIdle /\ MultipassIdle

IdleExceptEnqueue ==
    RangesIdle /\ JobIdle /\ ReduceIdle /\ AccIdle /\ TickIdle /\ ShutdownIdle /\ SanitizeIdle /\ IntakeIdle /\ SnapshotIdle /\ LifecycleIdle /\ MultipassIdle

IdleExceptMultipass ==
    RangesIdle /\ JobIdle /\ ReduceIdle /\ AccIdle /\ TickIdle /\ ShutdownIdle /\ SanitizeIdle /\ IntakeIdle /\ SnapshotIdle /\ LifecycleIdle /\ EnqueueIdle

\* ------------------------------------------------------------------ bounds

\* Largest identifier value of the model; identifiers are 0 .. MaxId.
MaxId == 7

\* Largest requestedChunks drawn.
MaxChunks == 4

IdSpace == MaxId + 1

Ids == 0 .. MaxId

\* null (endExclusive: ObjectId | null)
NoId == -1

Max2(a, b) == IF a >= b THEN a ELSE b

Min2(a, b) == IF a <= b THEN a ELSE b

\* ------------------------------------------------------- partitioner.ts

objectIdToBigInt(id) == id

\* value.toString(16).padStart(24, '0').slice(-24): the low 96 bits
bigIntToObjectId(value) == value % IdSpace

chunkSizeFloor(span, chunks) == span \div chunks

\* (span + BigInt(chunks) - 1n) / BigInt(chunks)
chunkSizeOf(span, chunks) == (span + chunks - 1) \div chunks

RECURSIVE rangeLoop(_, _, _, _, _)
\* for (let index = 0; index < chunks; index += 1) { ... }
rangeLoop(index, chunks, min, max, chunkSize) ==
    IF index >= chunks
    THEN <<>>
    ELSE LET start == min + index * chunkSize
             nextStart == start + chunkSize
         IN  IF start > max
             THEN <<>>
             ELSE <<[index |-> index,
                     startInclusive |-> bigIntToObjectId(start),
                     endExclusive |-> IF nextStart <= max
                                      THEN bigIntToObjectId(nextStart)
                                      ELSE NoId]>>
                  \o rangeLoop(index + 1, chunks, min, max, chunkSize)

buildObjectIdRanges(minId, maxId, requestedChunks) ==
    LET min == objectIdToBigInt(minId)
        max == objectIdToBigInt(maxId)
        chunks == Max2(1, requestedChunks)
    IN  IF max < min
        THEN <<>>
        ELSE IF chunks = 1
        THEN <<[index |-> 0, startInclusive |-> minId, endExclusive |-> NoId]>>
        ELSE rangeLoop(0, chunks, min, max, chunkSizeOf(max - min + 1, chunks))

rangeToIdMatchInclusiveEnd(range, id) ==
    /\ id >= range.startInclusive
    /\ (range.endExclusive # NoId => id <= range.endExclusive)

\* rangeToIdMatch(range) applied to an identifier: { $gte: start [, $lt: end] }
rangeToIdMatch(range, id) ==
    /\ id >= range.startInclusive
    /\ (range.endExclusive # NoId => id < range.endExclusive)

\* ------------------------------------------------------ reduce-engine.ts

\* null
Null == -1

\* undefined: a missing field, an unset Map entry
Undef == -2

AVG_SUM_PREFIX == "__avg_sum__"

AVG_COUNT_PREFIX == "__avg_count__"

INPUT_COUNT_FIELD == "__input_count"

\* value ?? fallback
Coalesce(value, fallback) == IF value = Null \/ value = Undef THEN fallback ELSE value

\* numericFrom(value, fieldName); the values of the model are null, undefined
\* or finite numbers, so it never throws
numericFrom(value) == IF value = Null \/ value = Undef THEN 0 ELSE value

\* The metrics of the reduce spec the model runs: one of each operation.
Metrics ==
    << [op |-> "count", field |-> "",       as |-> "n"],
       [op |-> "sum",   field |-> "amount", as |-> "s"],
       [op |-> "min",   field |-> "amount", as |-> "lo"],
       [op |-> "max",   field |-> "amount", as |-> "hi"],
       [op |-> "avg",   field |-> "amount", as |-> "av"] >>

\* buildGroupIdExpression(groupBy): the fields of the $group _id document
\* (the empty list stands for _id: null)
buildGroupIdExpression(groupBy) == groupBy

\* buildMetricAccumulator(metric): <<output field, accumulator, source field>>
buildMetricAccumulator(metric) ==
    CASE metric.op = "count" -> << <<metric.as, "$sum1", "">> >>
      [] metric.op = "sum"   -> << <<metric.as, "$sum", metric.field>> >>
      [] metric.op = "min"   -> << <<metric.as, "$min", metric.field>> >>
      [] metric.op = "max"   -> << <<metric.as, "$max", metric.field>> >>
      [] metric.op = "avg"   ->
            << <<AVG_SUM_PREFIX \o metric.as, "$sum", metric.field>>,
               <<AVG_COUNT_PREFIX \o metric.as, "$sumNotNull", metric.field>> >>

RECURSIVE groupAccOf(_)
\* spec.metrics.reduce(... Object.assign(acc, buildMetricAccumulator(metric)))
groupAccOf(metrics) ==
    IF metrics = <<>>
    THEN <<>>
    ELSE buildMetricAccumulator(Head(metrics)) \o groupAccOf(Tail(metrics))

\* buildReducePartitionPipeline: the $match on the identifier range and the
\* $group stage (tenantId and filters select rdDocs, see SpecReduce)
buildReducePartitionPipeline(range, spec) ==
    [match |-> range,
     groupId |-> buildGroupIdExpression(spec.groupBy),
     groupAcc |-> groupAccOf(spec.metrics) \o << <<INPUT_COUNT_FIELD, "$sum1", "">> >>]

RECURSIVE sumOver(_, _)
\* The sum of f[x] over the x of S.
sumOver(S, f) ==
    IF S = {}
    THEN 0
    ELSE LET x == CHOOSE y \in S : TRUE
         IN  f[x] + sumOver(S \ {x}, f)

SetMin(S) == CHOOSE x \in S : \A y \in S : x <= y

SetMax(S) == CHOOSE x \in S : \A y \in S : x >= y

\* The datastore's evaluation of one $group accumulator over the documents
\* `members` (identifiers of `docs`) of one group.
evalAccumulator(docs, members, acc, field) ==
    LET notNull == {m \in members : docs[m][field] # Null}
        present == {docs[m][field] : m \in notNull}
    IN  CASE acc = "$sum1" -> Cardinality(members)
          [] acc = "$sum" ->
                sumOver(members, [m \in members |-> numericFrom(docs[m][field])])
          [] acc = "$min" -> IF present = {} THEN Null ELSE SetMin(present)
          [] acc = "$max" -> IF present = {} THEN Null ELSE SetMax(present)
          [] acc = "$sumNotNull" -> Cardinality(notNull)

\* The $group _id of a document: one entry per groupBy field, Undef where the
\* document lacks the field.
rawGroupOf(doc, groupId) == [i \in 1 .. Len(groupId) |-> doc[groupId[i]]]

\* The rows collection.aggregate(pipeline) yields: one per group of the
\* documents the $match stage selects.
aggregateRows(docs, pipeline) ==
    LET ids == {id \in DOMAIN docs :
                    docs[id].present /\ rangeToIdMatch(pipeline.match, id)}
        groups == {rawGroupOf(docs[id], pipeline.groupId) : id \in ids}
        row(g) ==
            LET members == {id \in ids : rawGroupOf(docs[id], pipeline.groupId) = g}
                acc == pipeline.groupAcc
                names == {acc[i][1] : i \in 1 .. Len(acc)}
                at(name) == CHOOSE i \in 1 .. Len(acc) : acc[i][1] = name
            IN  [id |-> g,
                 fields |-> [name \in names |->
                     evalAccumulator(docs, members, acc[at(name)][2], acc[at(name)][3])]]
    IN  {row(g) : g \in groups}

\* decodeGroup(groupBy, rawGroup): source[field] ?? null per groupBy field
decodeGroup(groupBy, rawGroup) ==
    IF Len(groupBy) = 0
    THEN <<>>
    ELSE [i \in 1 .. Len(groupBy) |-> Coalesce(rawGroup[i], Null)]

jsonValue(v) == IF v = Null THEN "null" ELSE ToString(v)

RECURSIVE jsonEntries(_, _, _)
jsonEntries(groupBy, group, i) ==
    IF i > Len(groupBy)
    THEN ""
    ELSE (IF i > 1 THEN "," ELSE "") \o "\"" \o groupBy[i] \o "\":"
         \o jsonValue(group[i]) \o jsonEntries(groupBy, group, i + 1)

\* JSON.stringify(group)
jsonStringify(groupBy, group) == "{" \o jsonEntries(groupBy, group, 1) \o "}"

\* pickComparable(value): the values of the model are null, undefined or numbers
pickComparable(value) == IF value = Null \/ value = Undef THEN Null ELSE value

\* row[name] of a partial row (undefined when the row has no such field)
rowField(row, name) == IF name \in DOMAIN row.fields THEN row.fields[name] ELSE Undef

\* mergeMetricValue, metric.op === 'min' || metric.op === 'max'
mergeMinMax(state, metric, doc) ==
    LET current == rowField(doc, metric.as)
        previous == state.values[metric.as]
        currentComparable == pickComparable(current)
        previousComparable == pickComparable(previous)
    IN  IF previous = Undef
        THEN [state EXCEPT !.values[metric.as] = Coalesce(current, Null)]
        ELSE IF current = Null \/ current = Undef
        THEN state
        ELSE IF currentComparable = Null \/ previousComparable = Null
        THEN state
        ELSE IF \/ (metric.op = "min" /\ currentComparable < previousComparable)
                \/ (metric.op = "max" /\ currentComparable > previousComparable)
        THEN [state EXCEPT !.values[metric.as] = current]
        ELSE state

\* mergeMetricValue(state, metric, doc)
mergeMetricValue(state, metric, doc) ==
    IF metric.op = "avg"
    THEN LET sum == numericFrom(rowField(doc, AVG_SUM_PREFIX \o metric.as))
             count == numericFrom(rowField(doc, AVG_COUNT_PREFIX \o metric.as))
             previous == state.averages[metric.as]
         IN  [state EXCEPT !.averages[metric.as] =
                 [sum |-> previous.sum + sum, count |-> previous.count + count]]
    ELSE IF metric.op = "count" \/ metric.op = "sum"
    THEN LET current == numericFrom(rowField(doc, metric.as))
             previous == numericFrom(state.values[metric.as])
         IN  [state EXCEPT !.values[metric.as] = previous + current]
    ELSE mergeMinMax(state, metric, doc)

RECURSIVE mergeAll(_, _, _)
\* for (const metric of spec.metrics) mergeMetricValue(current, metric, row)
mergeAll(state, metrics, doc) ==
    IF metrics = <<>>
    THEN state
    ELSE mergeAll(mergeMetricValue(state, Head(metrics), doc), Tail(metrics), doc)

\* A new ReduceGroupState: values and averages are empty Maps (a Map entry
\* not yet set reads undefined; averages.get(as) ?? { sum: 0, count: 0 })
newGroupState(spec, group) ==
    [group |-> group,
     values |-> [a \in {spec.metrics[i].as : i \in
                    {j \in 1 .. Len(spec.metrics) : spec.metrics[j].op # "avg"}}
                 |-> Undef],
     averages |-> [a \in {spec.metrics[i].as : i \in
                    {j \in 1 .. Len(spec.metrics) : spec.metrics[j].op = "avg"}}
                   |-> [sum |-> 0, count |-> 0]],
     inputCount |-> 0]

consumeKey(spec, row) == jsonStringify(spec.groupBy, decodeGroup(spec.groupBy, row.id))

consumeThrowsAboveMax(state, spec, maxGroups, row) ==
    /\ consumeKey(spec, row) \notin DOMAIN state
    /\ maxGroups # Undef
    /\ Cardinality(DOMAIN state) > maxGroups

\* consume(row) throws: a new group while state.size >= options.maxGroups
consumeThrows(state, spec, maxGroups, row) ==
    /\ consumeKey(spec, row) \notin DOMAIN state
    /\ maxGroups # Undef
    /\ Cardinality(DOMAIN state) >= maxGroups

\* consume(row) when it does not throw: the accumulator's next state
consume(state, spec, row) ==
    LET group == decodeGroup(spec.groupBy, row.id)
        key == jsonStringify(spec.groupBy, group)
        current == IF key \in DOMAIN state THEN state[key]
                   ELSE newGroupState(spec, group)
        counted == [current EXCEPT !.inputCount =
                       @ + numericFrom(rowField(row, INPUT_COUNT_FIELD))]
        merged == mergeAll(counted, spec.metrics, row)
    IN  [k \in DOMAIN state \cup {key} |-> IF k = key THEN merged ELSE state[k]]

\* The position of a key in the order String.prototype.localeCompare gives
\* the keys of the model: digits sort before letters.
keyRank(key) ==
    CASE key = "{}" -> 0
      [] key = "{\"g\":1}" -> 1
      [] key = "{\"g\":2}" -> 2
      [] key = "{\"g\":null}" -> 3

localeCompare(left, right) == keyRank(left) - keyRank(right)

RECURSIVE sortKeys(_)
\* [...state.entries()].sort((left, right) => left[0].localeCompare(right[0]))
sortKeys(keys) ==
    IF keys = {}
    THEN <<>>
    ELSE LET first == CHOOSE k \in keys : \A o \in keys : localeCompare(k, o) <= 0
         IN  <<first>> \o sortKeys(keys \ {first})

RECURSIVE gcd(_, _)
gcd(a, b) == IF b = 0 THEN a ELSE gcd(b, a % b)

\* avg.count === 0 ? null : avg.sum / avg.count, the quotient kept as a
\* reduced fraction and null as 0/0
avgOutput(avg) ==
    IF avg.count = 0
    THEN [num |-> 0, den |-> 0]
    ELSE LET g == gcd(avg.sum, avg.count)
         IN  [num |-> avg.sum \div g, den |-> avg.count \div g]

\* One output row of toReduceSummary: { ...value.group, [metric.as]: ... }
summaryRow(spec, value) ==
    [group |-> value.group,
     values |-> [a \in DOMAIN value.values |-> Coalesce(value.values[a], Null)],
     averages |-> [a \in DOMAIN value.averages |-> avgOutput(value.averages[a])]]

\* toReduceSummary(spec, state)
toReduceSummary(spec, state) ==
    LET sortedEntries == sortKeys(DOMAIN state)
    IN  [rows |-> [i \in 1 .. Len(sortedEntries) |->
                      summaryRow(spec, state[sortedEntries[i]])],
         rowsIn |-> sumOver(DOMAIN state, [k \in DOMAIN state |-> state[k].inputCount]),
         rowsOut |-> Len(sortedEntries)]

\* createReduceAccumulator(spec, options): const state = new Map()
createReduceAccumulator == <<>>

RECURSIVE consumeEach(_, _, _)
consumeEach(state, spec, rows) ==
    IF rows = <<>>
    THEN state
    ELSE consumeEach(consume(state, spec, Head(rows)), spec, Tail(rows))

\* reducePartitionRows(spec, partialRows): an accumulator without maxGroups
reducePartitionRows(spec, rows) ==
    toReduceSummary(spec, consumeEach(createReduceAccumulator, spec, rows))

\* ------------------------------------------- runPartitionedReduce (SpecReduce)

\* Largest partitionMaxConcurrency drawn.
MaxConcurrency == 2

\* Largest requested chunk count drawn for a reduce call.
MaxReduceChunks == 3

\* Largest options.maxGroups drawn.
MaxGroupsDrawn == 2

\* The identifiers at which the source collection may hold a matching document.
DocSlots == {0, 1, MaxId}

NoDoc == [present |-> FALSE, g |-> Undef, amount |-> Null]

\* A matching document: its groupBy field g (a value or missing) and its
\* metric field amount (a number or null).
DocKinds == [present : {TRUE}, g : {1, Undef}, amount : {Null, 1, 2}]

idleWorker == [pc |-> "done", index |-> 0, pending |-> {}, chunkRows |-> <<>>,
               chunkRowCount |-> 0]

ReduceInit ==
    /\ rdCall = "init"
    /\ rdDocs \in [DocSlots -> DocKinds \cup {NoDoc}]
    /\ rdSpec \in {[groupBy |-> gb, metrics |-> Metrics] : gb \in {<<>>, <<"g">>}}
    /\ rdChunksReq \in 1 .. MaxReduceChunks
    /\ rdMaxConc \in 1 .. MaxConcurrency
    /\ rdV2 \in BOOLEAN
    /\ rdMaxGroups \in 1 .. MaxGroupsDrawn
    /\ ranges = <<>>
    /\ cursor = 0
    /\ chunkMetrics = <<>>
    /\ partialRows = <<>>
    /\ accumulator = createReduceAccumulator
    /\ workers = <<>>
    /\ aggLog = <<>>
    /\ rdResult = <<>>
    /\ IdleExceptReduce

\* runChunkWorker from `const nextIndex = cursor` to its first await (the
\* cursor's first row) or its return, for the worker taking index nextIndex
takeRange(nextIndex, rs) ==
    IF nextIndex >= Len(rs)
    THEN idleWorker
    ELSE [pc |-> "iter",
          index |-> nextIndex,
          pending |-> aggregateRows(rdDocs,
                          buildReducePartitionPipeline(rs[nextIndex + 1], rdSpec)),
          chunkRows |-> <<>>,
          chunkRowCount |-> 0]

workerCountUnbounded(maxConcurrency, rangeCount) == Max2(1, rangeCount)

\* partitionMaxConcurrency bounds the pool: Math.max(1, Math.min(..., ranges.length))
workerCountOf(maxConcurrency, rangeCount) == Max2(1, Min2(maxConcurrency, rangeCount))

\* The call up to `await Promise.all(...)`: the min/max probes, the early
\* return on an empty dataset, the ranges, and each runChunkWorker() started
\* in turn, each running synchronously to its first await.
ReduceStart ==
    /\ rdCall = "init"
    /\ LET present == {id \in DOMAIN rdDocs : rdDocs[id].present}
       IN  IF present = {}
           THEN /\ rdCall' = "returned"
                /\ rdResult' = [rows |-> <<>>, rowsIn |-> 0, rowsOut |-> 0,
                                chunks |-> 0, chunkMetrics |-> <<>>]
                /\ UNCHANGED <<ranges, cursor, workers, aggLog>>
           ELSE LET rs == buildObjectIdRanges(SetMin(present), SetMax(present),
                                              rdChunksReq)
                    workerCount == workerCountOf(rdMaxConc, Len(rs))
                IN  /\ rdCall' = "pending"
                    /\ ranges' = rs
                    /\ cursor' = workerCount
                    /\ workers' = [w \in 1 .. workerCount |-> takeRange(w - 1, rs)]
                    /\ aggLog' = [i \in 1 .. Min2(workerCount, Len(rs)) |-> <<i - 1, i>>]
                    /\ UNCHANGED rdResult
    /\ UNCHANGED <<reduceInputs, chunkMetrics, partialRows, accumulator>>
    /\ UNCHANGED exceptReduce

\* One iteration of `for await (const row of chunkCursor)` in worker w: the
\* cursor yields one of the chunk's rows (the datastore fixes no order).
WorkerRow(w) ==
    /\ rdCall \in {"pending", "rejected"}
    /\ w \in DOMAIN workers
    /\ workers[w].pc = "iter"
    /\ \E row \in workers[w].pending :
        IF rdV2
        THEN IF consumeThrows(accumulator, rdSpec, rdMaxGroups, row)
             THEN /\ workers' = [workers EXCEPT ![w].pc = "failed",
                                                 ![w].chunkRowCount = @ + 1]
                  /\ rdCall' = "rejected"
                  /\ UNCHANGED accumulator
             ELSE /\ accumulator' = consume(accumulator, rdSpec, row)
                  /\ workers' = [workers EXCEPT ![w].pending = @ \ {row},
                                                 ![w].chunkRowCount = @ + 1]
                  /\ UNCHANGED rdCall
        ELSE /\ workers' = [workers EXCEPT ![w].pending = @ \ {row},
                                            ![w].chunkRows = Append(@, row),
                                            ![w].chunkRowCount = @ + 1]
             /\ UNCHANGED <<rdCall, accumulator>>
    /\ UNCHANGED <<reduceInputs, ranges, cursor, chunkMetrics, partialRows, aggLog,
                   rdResult>>
    /\ UNCHANGED exceptReduce

\* Worker w's cursor is exhausted: it records the chunk metric, appends its
\* rows to partialRows (v1) and loops to take the next index.
WorkerChunkEnd(w) ==
    /\ rdCall \in {"pending", "rejected"}
    /\ w \in DOMAIN workers
    /\ workers[w].pc = "iter"
    /\ workers[w].pending = {}
    /\ chunkMetrics' = Append(chunkMetrics,
                              [index |-> ranges[workers[w].index + 1].index,
                               rowsOut |-> workers[w].chunkRowCount])
    /\ partialRows' = IF rdV2 THEN partialRows
                      ELSE partialRows \o workers[w].chunkRows
    /\ cursor' = cursor + 1
    /\ workers' = [workers EXCEPT ![w] = takeRange(cursor, ranges)]
    /\ aggLog' = IF cursor >= Len(ranges) THEN aggLog ELSE Append(aggLog, <<cursor, w>>)
    /\ UNCHANGED <<rdCall, reduceInputs, ranges, accumulator, rdResult>>
    /\ UNCHANGED exceptReduce

RECURSIVE sortByIndex(_)
\* chunkMetrics.sort((a, b) => a.index - b.index)
sortByIndex(metrics) ==
    IF metrics = <<>>
    THEN <<>>
    ELSE LET first == CHOOSE i \in 1 .. Len(metrics) :
                          /\ \A j \in 1 .. Len(metrics) :
                                 metrics[i].index <= metrics[j].index
                          /\ \A j \in 1 .. i - 1 : metrics[j].index # metrics[i].index
             rest == [k \in 1 .. Len(metrics) - 1 |->
                         IF k < first THEN metrics[k] ELSE metrics[k + 1]]
         IN  <<metrics[first]>> \o sortByIndex(rest)

\* normalizeValue(row): the values of the model are scalars, which pass through
normalizeValue(value) == value

\* Promise.all resolved: sort chunkMetrics, finalize or merge, return.
ReduceReturn ==
    /\ rdCall = "pending"
    /\ \A w \in DOMAIN workers : workers[w].pc = "done"
    /\ LET sorted == sortByIndex(chunkMetrics)
           reduced == IF rdV2 THEN toReduceSummary(rdSpec, accumulator)
                      ELSE reducePartitionRows(rdSpec, partialRows)
       IN  /\ chunkMetrics' = sorted
           /\ rdResult' = [rows |-> [i \in 1 .. Len(reduced.rows) |->
                                        normalizeValue(reduced.rows[i])],
                           rowsIn |-> reduced.rowsIn,
                           rowsOut |-> reduced.rowsOut,
                           chunks |-> Len(ranges),
                           chunkMetrics |-> sorted]
    /\ rdCall' = "returned"
    /\ UNCHANGED <<reduceInputs, ranges, cursor, partialRows, accumulator, workers,
                   aggLog>>
    /\ UNCHANGED exceptReduce

ReduceNext ==
    \/ ReduceStart
    \/ \E w \in 1 .. MaxConcurrency : WorkerRow(w)
    \/ \E w \in 1 .. MaxConcurrency : WorkerChunkEnd(w)
    \/ ReduceReturn

SpecReduce == ReduceInit /\ [][ReduceNext]_vars

\* ---- claims on SpecReduce

PresentDocs == {id \in DOMAIN rdDocs : rdDocs[id].present}

\* The range workers that have an aggregation cursor open.
InFlight == {w \in DOMAIN workers : workers[w].pc = "iter"}

AggregatedIndexes == {aggLog[i][1] : i \in 1 .. Len(aggLog)}

\* C8: in a partitioned reduce over n ranges, under every interleaving of the
\* range workers, each range index 0..n-1 is aggregated at most once while
\* the call runs and exactly once, by one worker, when it returns; at most
\* min(partitionMaxConcurrency, n) aggregations are in flight; and on return
\* chunkMetrics holds one entry per range in ascending index order.
C8_EachRangeOnceBoundedPool ==
    rdCall \in {"pending", "rejected", "returned"} =>
        LET n == Len(ranges)
        IN  /\ Cardinality(InFlight) <= Min2(rdMaxConc, n)
            /\ \A i, j \in 1 .. Len(aggLog) :
                   aggLog[i][1] = aggLog[j][1] => i = j
            /\ AggregatedIndexes \subseteq 0 .. n - 1
            /\ rdCall = "returned" =>
                /\ AggregatedIndexes = 0 .. n - 1
                /\ Len(rdResult.chunkMetrics) = n
                /\ \A i \in 1 .. n : rdResult.chunkMetrics[i].index = i - 1
                /\ rdResult.chunks = n

\* A returned call over three ranges with two workers, the third range taken
\* by the second worker.
C8_Witness ==
    /\ rdCall = "returned"
    /\ Len(ranges) = 3
    /\ rdMaxConc = 2
    /\ Len(aggLog) = 3
    /\ aggLog[3] = <<2, 2>>

\* The group-by tuples of the matching documents (a missing field reads null).
GroupTuples ==
    {decodeGroup(rdSpec.groupBy, rawGroupOf(rdDocs[id], rdSpec.groupBy)) :
        id \in PresentDocs}

\* C10: for every dataset split into any number of ranges, each matching
\* document lies in exactly one range, the reduce returns exactly one row per
\* distinct group-by tuple of the matching documents, rowsOut is that number
\* of tuples and rowsIn is the number of matching documents.
C10_OneRowPerGroup ==
    rdCall = "returned" =>
        /\ \A id \in PresentDocs :
               Cardinality({i \in 1 .. Len(ranges) : rangeToIdMatch(ranges[i], id)}) = 1
        /\ rdResult.rowsOut = Cardinality(GroupTuples)
        /\ Len(rdResult.rows) = Cardinality(GroupTuples)
        /\ {rdResult.rows[i].group : i \in 1 .. Len(rdResult.rows)} = GroupTuples
        /\ rdResult.rowsIn = Cardinality(PresentDocs)

\* A returned reduce of three documents in two groups over three ranges.
C10_Witness ==
    /\ rdCall = "returned"
    /\ Len(ranges) = 3
    /\ Cardinality(PresentDocs) = 3
    /\ rdSpec.groupBy = <<"g">>
    /\ rdResult.rowsOut = 2
    /\ rdResult.rowsIn = 3

RECURSIVE rowsInRangeOrder(_)
\* The partial rows of ranges i .. n, range by range in ascending index.
rowsInRangeOrder(i) ==
    IF i > Len(ranges)
    THEN <<>>
    ELSE LET rows == aggregateRows(rdDocs,
                         buildReducePartitionPipeline(ranges[i], rdSpec))
             RECURSIVE seqOf(_)
             seqOf(S) == IF S = {} THEN <<>>
                         ELSE LET r == CHOOSE x \in S : TRUE
                              IN  <<r>> \o seqOf(S \ {r})
         IN  seqOf(rows) \o rowsInRangeOrder(i + 1)

\* C7: for a fixed dataset, reduce spec and chunk count the rows the
\* partitioned reduce returns are the same under every interleaving of the
\* range workers and every fold order, for the buffered merge and the
\* streaming accumulator alike: they are the rows that folding the partial
\* rows range by range gives.
C7_RowsIndependentOfInterleaving ==
    rdCall = "returned" =>
        rdResult.rows = reducePartitionRows(rdSpec, rowsInRangeOrder(1)).rows

\* ------------------------------------------------------------ SpecRanges

RangesInit ==
    /\ rgPc = "input"
    /\ rgMin \in Ids
    /\ rgMax \in Ids
    /\ rgChunks \in 0 .. MaxChunks
    /\ rgResult = <<>>
    /\ IdleExceptRanges

BuildRanges ==
    /\ rgPc = "input"
    /\ rgResult' = buildObjectIdRanges(rgMin, rgMax, rgChunks)
    /\ rgPc' = "done"
    /\ UNCHANGED <<rgMin, rgMax, rgChunks>>
    /\ UNCHANGED exceptRanges

RangesNext == BuildRanges

SpecRanges == RangesInit /\ [][RangesNext]_vars

\* ---------------------------------------------------------------- claims

\* The identifiers of [min, max] that range r of the result holds.
RangeMembers(r) == {id \in Ids : rangeToIdMatch(r, id)}

\* C9: for k >= 1, buildObjectIdRanges(min, max, k) covers [min, max] with no
\* overlap and no gap: the first range starts at min, each range's exclusive
\* end is the next range's start, starts strictly increase, the last range is
\* open-ended; the result is empty when max < min and is one open-ended range
\* starting at min when k = 1.
C9_RangesPartition ==
    (rgPc = "done" /\ rgChunks >= 1) =>
        LET n == Len(rgResult)
        IN  /\ (rgMax < rgMin) <=> (n = 0)
            /\ n > 0 =>
                /\ rgResult[1].startInclusive = rgMin
                /\ rgResult[n].endExclusive = NoId
                /\ n <= rgChunks
                /\ \A i \in 1 .. n :
                       /\ rgResult[i].index = i - 1
                       /\ rgResult[i].startInclusive \in rgMin .. rgMax
                /\ \A i \in 1 .. n - 1 :
                       /\ rgResult[i].endExclusive = rgResult[i + 1].startInclusive
                       /\ rgResult[i].startInclusive < rgResult[i + 1].startInclusive
                /\ \A id \in rgMin .. rgMax :
                       Cardinality({i \in 1 .. n : id \in RangeMembers(rgResult[i])}) = 1
            /\ rgChunks = 1 /\ rgMin <= rgMax =>
                rgResult = <<[index |-> 0, startInclusive |-> rgMin,
                              endExclusive |-> NoId]>>

\* A call with several chunks over an interval that does not divide evenly.
C9_Witness ==
    /\ rgPc = "done"
    /\ rgChunks = 3
    /\ rgMin = 1
    /\ rgMax = 5
    /\ Len(rgResult) = 3

\* ===================================================================
\* Spec: the report job processor (createReportJobProcessor), one job from
\* its intake to the last delivery of its queue message.
\* ===================================================================

Tenants == {"A", "B"}

\* attempts: 5 in the options of queue.add
Attempts == 5

\* deps.config.reportPartitionDefaultChunks
PartitionDefaultChunks == 2

NoJob == [status |-> "absent"]

NoOutcome == [kind |-> "none", error |-> ""]

\* A job document without processingStats; zipStrategy "" is the absent field.
NoStats == [rowsIn |-> 0, rowsOut |-> 0, mode |-> "", zipStrategy |-> ""]

\* deps.config.reportPdfMaxRows
reportPdfMaxRows == 1

\* ---- values of a filters mapping: strings, nested objects, arrays

Str(v) == [t |-> "str", v |-> v]

Obj(entries) == [t |-> "obj", v |-> entries]

Arr(items) == [t |-> "arr", v |-> items]

Undefined == [t |-> "undefined", v |-> <<>>]

\* A key is the sequence of its pieces, so that key.startsWith('$') and
\* key.includes('.') read the key itself.
Key(name) == <<name>>

startsWith(key, piece) == Len(key) > 0 /\ key[1] = piece

includes(key, piece) == \E i \in DOMAIN key : key[i] = piece

RECURSIVE sanitizeFilters(_)
sanitizeFilters(input) ==
    IF input.t # "obj"
    THEN Obj(<<>>)
    ELSE LET entries == input.v
             RECURSIVE walk(_)
             walk(i) ==
                 IF i > Len(entries)
                 THEN <<>>
                 ELSE LET key == entries[i][1]
                          value == entries[i][2]
                      IN  IF startsWith(key, "$") \/ includes(key, ".")
                          THEN walk(i + 1)
                          ELSE IF value.t = "obj"
                               THEN <<<<key, sanitizeFilters(value)>>>> \o walk(i + 1)
                               ELSE <<<<key, value>>>> \o walk(i + 1)
         IN  Obj(walk(1))

\* ---- object literals with a spread: { a, ...b }

\* obj[key] = value on an object's entries: an own key keeps its position
setProperty(entries, key, value) ==
    IF \E i \in DOMAIN entries : entries[i][1] = key
    THEN [i \in DOMAIN entries |->
            IF entries[i][1] = key THEN <<key, value>> ELSE entries[i]]
    ELSE Append(entries, <<key, value>>)

RECURSIVE spread(_, _)
spread(target, source) ==
    IF source = <<>>
    THEN target
    ELSE spread(setProperty(target, Head(source)[1], Head(source)[2]), Tail(source))

tenantOnly(tenantId) == <<<<Key("tenantId"), Str(tenantId)>>>>

\* { tenantId, ...filters }: baseMatch of runPartitionedReduce and the query
\* of readDatasetMaxObjectId
baseMatch(tenantId, filterObj) == spread(tenantOnly(tenantId), filterObj.v)

\* rangeToIdMatch(range) as a match fragment: { _id: { $gte, $lt } }
idMatchOf(range) == <<<<Key("_id"), [t |-> "range", v |-> range]>>>>

\* $match of buildReducePartitionPipeline: { tenantId, ...filters, ...idMatch }
partitionMatch(tenantId, filterObj, range) ==
    <<spread(spread(tenantOnly(tenantId), filterObj.v), idMatchOf(range))>>

\* $match of buildRawReportPipeline: one clause, or $and of two
rawMatch(tenantId, filterObj, maxObjectId) ==
    LET matchClauses == <<spread(tenantOnly(tenantId), filterObj.v)>>
    IN  IF maxObjectId # NoId
        THEN Append(matchClauses, <<<<Key("_id"), [t |-> "lte", v |-> maxObjectId]>>>>)
        ELSE matchClauses

\* ---- the source collection and the datastore's evaluation of a match

SourceDoc(id, tenantId, kind) ==
    (Key("_id") :> id) @@ (Key("tenantId") :> tenantId) @@ (Key("kind") :> kind)

reportSource ==
    {SourceDoc(1, "A", "x"), SourceDoc(2, "B", "x"),
     SourceDoc(4, "A", "y"), SourceDoc(6, "B", "y")}

matchesEntry(doc, entry) ==
    LET key == entry[1]
        value == entry[2]
    IN  CASE value.t = "range" -> key \in DOMAIN doc /\ rangeToIdMatch(value.v, doc[key])
          [] value.t = "lte" -> key \in DOMAIN doc /\ doc[key] <= value.v
          [] value.t = "str" ->
                 /\ key \in DOMAIN doc
                 /\ key # Key("_id")
                 /\ doc[key] = value.v
          [] OTHER -> FALSE

matchesClause(doc, clause) == \A i \in DOMAIN clause : matchesEntry(doc, clause[i])

matches(doc, match) == \A c \in DOMAIN match : matchesClause(doc, match[c])

find(match) == {doc \in reportSource : matches(doc, match)}

idsOf(docs) == {doc[Key("_id")] : doc \in docs}

\* ---- resolveAllowedSourceCollection; a name is the sequence of its pieces

COLLECTIONS_REPORT_SOURCE == <<"reportSource">>

reportAllowedSourceCollections == {<<"reportSource">>}

RECURSIVE trimStart(_)
trimStart(name) ==
    IF name # <<>> /\ Head(name) = " " THEN trimStart(Tail(name)) ELSE name

RECURSIVE trimEnd(_)
trimEnd(name) ==
    IF name # <<>> /\ name[Len(name)] = " "
    THEN trimEnd(SubSeq(name, 1, Len(name) - 1))
    ELSE name

trim(name) == trimEnd(trimStart(name))

\* /^[A-Za-z0-9_]+$/ : at least one piece, and no blank or punctuation piece
SAFE_COLLECTION_NAME(name) ==
    /\ name # <<>>
    /\ \A i \in DOMAIN name : name[i] \notin {" ", "-", ".", "$"}

\* the mutant of resolveAllowedSourceCollection: every name is accepted
resolveAnySourceCollection(sourceCollection, allowedSourceCollections, fallbackCollection) ==
    [error |-> "", name |-> sourceCollection]

resolveAllowedSourceCollection(sourceCollection, allowedSourceCollections, fallbackCollection) ==
    LET resolved == IF trim(sourceCollection) # <<>>
                    THEN trim(sourceCollection)
                    ELSE fallbackCollection
    IN  IF ~SAFE_COLLECTION_NAME(resolved)
        THEN [error |-> "sourceCollection must match ^[A-Za-z0-9_]+$", name |-> <<>>]
        ELSE IF resolved \notin allowedSourceCollections
             THEN [error |-> "sourceCollection is not allowed", name |-> <<>>]
             ELSE [error |-> "", name |-> resolved]

\* ---- assertReadReplica: the message it throws, "" when it returns

assertReadReplicaPermissive(hello) == ""

assertReadReplica(hello) ==
    IF hello.isWritablePrimary
    THEN "Read replica connection is pointing to primary, refusing to run report job"
    ELSE ""

\* ---- ensureIncludeFormats: the message it throws, "" when it returns

ensureIncludeFormats(rep) ==
    IF rep.format # "zip"
    THEN ""
    ELSE IF Len(rep.includeFormats) = 0
         THEN "format=zip requires includeFormats"
         ELSE ""

\* ---- StorageService.upload: what it throws and the descriptor it returns

NoArtifact == [mode |-> "", available |-> FALSE, reason |-> "", key |-> <<>>]

\* generated.extension: zip for the output of generateZipFromEntries, the
\* format's own extension for a single-format stream
generatedExtension(rep) ==
    IF rep.format = "zip" \/ rep.compression = "zip" THEN "zip" ELSE rep.format

\* `report.${single.extension}`; every single format's extension is its name
entryName(format) == "report." \o format

artifactEntriesNone(rep) == <<>>

\* let artifactEntries: the entry names in the order of includeFormats for
\* an archive job, the one wrapped entry under compression zip, else unset
artifactEntries(rep) ==
    IF rep.format = "zip"
    THEN [i \in DOMAIN rep.includeFormats |-> entryName(rep.includeFormats[i])]
    ELSE IF rep.compression = "zip" THEN <<entryName(rep.format)>> ELSE <<>>

\* artifactEntries?.length ? { ...uploadedArtifact, entries } : uploadedArtifact
artifactView(uploaded, entries) ==
    IF entries = <<>> THEN uploaded
    ELSE [mode |-> uploaded.mode, available |-> uploaded.available,
          reason |-> uploaded.reason, key |-> uploaded.key, entries |-> entries]

\* const key = `${tenantId}/${reportJobId}/report.${generated.extension}`
objectKey(rep) == <<rep.tenantId, "reportJobId", "report." \o generatedExtension(rep)>>

\* resolve(config.filesystemStoragePath, input.key); s3 and minio keep input.key
storedKey(mode, key) ==
    IF mode = "filesystem" THEN <<"filesystemStoragePath">> \o key ELSE key

\* the mutant of upload: every failure propagates, whatever the policy
uploadPolicyIgnored(mode, policy, key, streamError, storageFails) ==
    IF streamError # "" \/ (mode # "noop" /\ storageFails)
    THEN [threw |-> IF streamError # "" THEN streamError ELSE "storage write failed",
          artifact |-> NoArtifact]
    ELSE [threw |-> "",
          artifact |-> [mode |-> mode, available |-> mode # "noop",
                        reason |-> IF mode = "noop" THEN "EXTERNAL_STORAGE_DISABLED"
                                   ELSE "",
                        key |-> storedKey(mode, key)]]

upload(mode, policy, key, streamError, storageFails) ==
    IF mode = "noop"
    THEN IF streamError # ""
         THEN [threw |-> streamError, artifact |-> NoArtifact]
         ELSE [threw |-> "",
               artifact |-> [mode |-> "noop", available |-> FALSE,
                             reason |-> "EXTERNAL_STORAGE_DISABLED", key |-> key]]
    ELSE LET error == IF streamError # ""
                      THEN streamError
                      ELSE IF storageFails THEN "storage write failed" ELSE ""
         IN  IF error = ""
             THEN [threw |-> "",
                   artifact |-> [mode |-> mode, available |-> TRUE, reason |-> "",
                                 key |-> storedKey(mode, key)]]
             ELSE IF policy = "optional"
                  THEN [threw |-> "",
                        artifact |-> [mode |-> "noop", available |-> FALSE,
                                      reason |-> "OPTIONAL_INTEGRATION_FAILURE",
                                      key |-> key]]
                  ELSE [threw |-> error, artifact |-> NoArtifact]

\* ---- the activation's log

statusEvent(doc) ==
    [kind |-> "status",
     val |-> [status |-> doc.status, progress |-> doc.progress,
              finishedAt |-> doc.finishedAt, message |-> doc.error]]

helloEvent(hello) == [kind |-> "hello", val |-> hello]

queryEvent(site, match) == [kind |-> "query", val |-> [site |-> site, match |-> match]]

uploadEvent == [kind |-> "upload", val |-> <<>>]

\* writeSnapshot was called: the snapshot file is created
snapshotEvent == [kind |-> "snapshot", val |-> <<>>]

rmEvent(ok) == [kind |-> "rm", val |-> [ok |-> ok]]

rmKeepsFile(exists, ok) == exists

\* await rm(path, { force: true }).catch(() => undefined): whether the file
\* exists afterwards
rm(exists, ok) == exists /\ ~ok

\* ---- the updates of the job document

runningUpdate(doc) ==
    [doc EXCEPT !.status = "running", !.progress = 10, !.startedAt = TRUE, !.error = ""]

uploadingUpdateAt70(doc) == [doc EXCEPT !.status = "uploading", !.progress = 70]

uploadingUpdate(doc) == [doc EXCEPT !.status = "uploading", !.progress = 75]

uploadedUpdate(doc, artifact, rowCount, processingStats) ==
    [doc EXCEPT !.status = "uploaded", !.progress = 100, !.rowCount = rowCount,
                !.artifact = artifact, !.processingStats = processingStats,
                !.finishedAt = TRUE, !.error = ""]

failedUpdate(doc, message) ==
    [doc EXCEPT !.status = "failed", !.progress = 100, !.finishedAt = TRUE,
                !.error = message]

\* ---- the queue's bookkeeping when the processor's promise settles

settle(message, result) ==
    LET attemptsMade == message.attemptsMade + 1
    IN  IF result.kind = "resolved"
        THEN [state |-> "completed", attemptsMade |-> attemptsMade]
        ELSE [state |-> IF attemptsMade < Attempts THEN "waiting" ELSE "failed",
              attemptsMade |-> attemptsMade]

resolved == [kind |-> "resolved", error |-> ""]

rejected(error) == [kind |-> "rejected", error |-> error]

\* ---- inputs

FilterInputs ==
    {Undefined,
     Obj(<<<<Key("kind"), Str("x")>>>>),
     Obj(<<<<Key("tenantId"), Str("B")>>>>),
     Obj(<<<<<<"$", "where">>, Str("1")>>,
           <<<<"meta", ".", "kind">>, Str("x")>>,
           <<Key("kind"), Obj(<<<<<<"$", "ne">>, Str("x")>>>>)>>>>)}

SourceCollectionInputs == {<<>>, <<"customSource">>}

Formats == {"json", "pdf", "zip"}

\* createReportSchema refuses compression = zip together with format = zip
Compressions(format) == IF format = "zip" THEN {"none"} ELSE {"none", "zip"}

\* The adapter's s3 and minio modes take the same path through upload() as
\* filesystem.
Configs ==
    [storageMode : {"noop", "filesystem"},
     storagePolicy : {"required", "optional"},
     reportZipMultipassEnabled : BOOLEAN]

ActivationReset ==
    /\ filters' = Obj(<<>>)
    /\ rowSource' = "none"
    /\ pending' = <<>>
    /\ snapshotPath' = ""
    /\ snapshotFile' = FALSE
    /\ uploadedArtifact' = NoArtifact
    /\ actLog' = <<>>
    /\ raised' = ""
    /\ caught' = ""

Init ==
    /\ cfg \in Configs
    /\ jobDoc = NoJob
    /\ msg = [state |-> "none", attemptsMade |-> 0]
    /\ pc = "idle"
    /\ report = NoJob
    /\ filters = Obj(<<>>)
    /\ rowSource = "none"
    /\ pending = <<>>
    /\ snapshotPath = ""
    /\ snapshotFile = FALSE
    /\ uploadedArtifact = NoArtifact
    /\ actLog = <<>>
    /\ raised = ""
    /\ caught = ""
    /\ outcome = NoOutcome
    /\ IdleExceptJob

activationLocals == <<report, filters, rowSource, pending, snapshotPath,
                      snapshotFile, uploadedArtifact, actLog, raised, caught>>

\* POST /v1/reports: the job document is inserted queued with progress 0 and
\* its message is added to the queue.
CreateReport ==
    /\ jobDoc = NoJob
    /\ msg.state = "none"
    /\ \E tenantId \in Tenants, format \in Formats, reduceSpec \in BOOLEAN,
          compression \in {"none", "zip"},
          filterInput \in FilterInputs, sourceCollection \in SourceCollectionInputs :
          /\ compression \in Compressions(format)
          /\ jobDoc' = [status |-> "queued",
                        progress |-> 0,
                        tenantId |-> tenantId,
                        format |-> format,
                        includeFormats |-> IF format = "zip" THEN <<"csv", "pdf">> ELSE <<>>,
                        compression |-> compression,
                        filters |-> filterInput,
                        reduceSpec |-> reduceSpec,
                        sourceCollection |-> sourceCollection,
                        startedAt |-> FALSE,
                        finishedAt |-> FALSE,
                        error |-> "",
                        rowCount |-> 0,
                        processingStats |-> NoStats,
                        artifact |-> [mode |-> cfg.storageMode, available |-> FALSE,
                                      reason |-> "PENDING", key |-> <<>>]]
    /\ msg' = [state |-> "waiting", attemptsMade |-> 0]
    /\ UNCHANGED <<cfg, pc, activationLocals, outcome>>
    /\ UNCHANGED exceptJob

\* The TTL index on expireAt removes the job document; taken between two
\* deliveries of the message.
ExpireJob ==
    /\ jobDoc # NoJob
    /\ pc = "idle"
    /\ msg.state = "waiting"
    /\ jobDoc' = NoJob
    /\ UNCHANGED <<cfg, msg, pc, activationLocals, outcome>>
    /\ UNCHANGED exceptJob

\* The queue delivers the message and the processor loads the job by
\* { _id, tenantId }; not found: warn and return.
Activate ==
    /\ pc = "idle"
    /\ msg.state = "waiting"
    /\ ActivationReset
    /\ \E storeOk \in BOOLEAN :
          IF ~storeOk
          THEN /\ report' = NoJob
               /\ outcome' = rejected("jobs store unavailable")
               /\ msg' = settle(msg, outcome')
               /\ pc' = "idle"
               /\ UNCHANGED jobDoc
          ELSE IF jobDoc = NoJob
               THEN /\ report' = NoJob
                    /\ outcome' = resolved
                    /\ msg' = settle(msg, outcome')
                    /\ pc' = "idle"
                    /\ UNCHANGED jobDoc
               ELSE /\ report' = jobDoc
                    /\ outcome' = NoOutcome
                    /\ msg' = [msg EXCEPT !.state = "active"]
                    /\ pc' = "running"
                    /\ UNCHANGED jobDoc
    /\ UNCHANGED cfg
    /\ UNCHANGED exceptJob

\* The transition to running, before the try block: a failure of this write
\* rejects the activation with no failed write.
WriteRunning ==
    /\ pc = "running"
    /\ \E storeOk \in BOOLEAN :
          IF storeOk
          THEN /\ jobDoc' = runningUpdate(jobDoc)
               /\ actLog' = Append(actLog, statusEvent(jobDoc'))
               /\ pc' = "identity"
               /\ UNCHANGED <<msg, outcome>>
          ELSE /\ outcome' = rejected("jobs store unavailable")
               /\ msg' = settle(msg, outcome')
               /\ pc' = "idle"
               /\ UNCHANGED <<jobDoc, actLog>>
    /\ UNCHANGED <<cfg, report, filters, rowSource, pending, snapshotPath,
                   uploadedArtifact, raised, caught>>
    /\ UNCHANGED snapshotFile
    /\ UNCHANGED exceptJob

\* await assertReadReplicaFn(deps.mongo.readDb)
AssertReadReplica ==
    /\ pc = "identity"
    /\ \E hello \in [isWritablePrimary : BOOLEAN] :
          LET error == assertReadReplica(hello)
          IN  /\ actLog' = Append(actLog, helloEvent(hello))
              /\ IF error # ""
                 THEN /\ raised' = error
                      /\ caught' = error
                      /\ pc' = "catch"
                 ELSE /\ pc' = "plan"
                      /\ UNCHANGED <<raised, caught>>
    /\ UNCHANGED <<cfg, jobDoc, msg, report, filters, rowSource, pending, snapshotPath,
                   uploadedArtifact, outcome>>
    /\ UNCHANGED snapshotFile
    /\ UNCHANGED exceptJob

useZipMultipass(rep) ==
    cfg.reportZipMultipassEnabled /\ rep.format = "zip" /\ ~rep.reduceSpec

\* sanitizeFilters, resolveAllowedSourceCollection and the choice of the row
\* source; the raw cursor is created lazily and reads nothing yet.
Plan ==
    /\ pc = "plan"
    /\ filters' = sanitizeFilters(report.filters)
    /\ LET source == resolveAllowedSourceCollection(report.sourceCollection,
                         reportAllowedSourceCollections, COLLECTIONS_REPORT_SOURCE)
       IN  IF source.error # ""
           THEN /\ raised' = source.error
                /\ caught' = source.error
                /\ pc' = "catch"
                /\ UNCHANGED rowSource
           ELSE /\ UNCHANGED <<raised, caught>>
                /\ IF report.reduceSpec
                   THEN /\ pc' = "reduce"
                        /\ UNCHANGED rowSource
                   ELSE /\ pc' = "generate"
                        /\ rowSource' = IF useZipMultipass(report) THEN "none" ELSE "raw"
    /\ UNCHANGED <<cfg, jobDoc, msg, report, pending, snapshotPath, uploadedArtifact,
                   actLog, outcome>>
    /\ UNCHANGED snapshotFile
    /\ UNCHANGED exceptJob

\* The source queries of one runPartitionedReduce call: the two probes, then
\* one aggregation per range unless the dataset is empty.
reduceQueries(tenantId, filterObj) ==
    LET base == <<baseMatch(tenantId, filterObj)>>
        ids == idsOf(find(base))
        probes == <<queryEvent("minProbe", base), queryEvent("maxProbe", base)>>
        rs == IF ids = {}
              THEN <<>>
              ELSE buildObjectIdRanges(SetMin(ids), SetMax(ids), PartitionDefaultChunks)
    IN  probes \o [i \in 1 .. Len(rs) |->
                      queryEvent("partition", partitionMatch(tenantId, filterObj, rs[i]))]

\* await runPartitionedReduceFn(...): validateReduceSpec throws before any
\* query; the accumulator's cardinality error comes after the aggregations.
RunReduce ==
    /\ pc = "reduce"
    /\ \E error \in {"", "reduceSpec.metrics must not be empty",
                     "Reduce cardinality exceeded"} :
          /\ actLog' = IF error = "reduceSpec.metrics must not be empty"
                       THEN actLog
                       ELSE actLog \o reduceQueries(report.tenantId, filters)
          /\ IF error # ""
             THEN /\ raised' = error
                  /\ caught' = error
                  /\ pc' = "catch"
                  /\ UNCHANGED rowSource
             ELSE /\ rowSource' = "reduced"
                  /\ pc' = "generate"
                  /\ UNCHANGED <<raised, caught>>
    /\ UNCHANGED <<cfg, jobDoc, msg, report, filters, pending, snapshotPath,
                   uploadedArtifact, outcome>>
    /\ UNCHANGED snapshotFile
    /\ UNCHANGED exceptJob

\* readDatasetMaxObjectId: the newest matching identifier, or null
readDatasetMaxObjectId(tenantId, filterObj) ==
    LET ids == idsOf(find(<<baseMatch(tenantId, filterObj)>>))
    IN  IF ids = {} THEN NoId ELSE SetMax(ids)

\* The generator is set up. zip: ensureIncludeFormats, then either multipass
\* (the max-identifier probe now, one raw cursor per entry later) or the
\* snapshot (the rows are read now into the snapshot file). Otherwise the
\* rows are read when the generated stream is consumed.
Generate ==
    /\ pc = "generate"
    /\ LET tenantId == report.tenantId
           rawNow == IF rowSource = "raw"
                     THEN <<queryEvent("raw", rawMatch(tenantId, filters, NoId))>>
                     ELSE <<>>
       IN  IF report.format = "zip"
           THEN IF ensureIncludeFormats(report) # ""
                THEN /\ raised' = ensureIncludeFormats(report)
                     /\ caught' = raised'
                     /\ pc' = "catch"
                     /\ UNCHANGED <<pending, snapshotPath, snapshotFile, actLog>>
                ELSE IF useZipMultipass(report)
                     THEN LET maxObjectId == readDatasetMaxObjectId(tenantId, filters)
                          IN  /\ actLog' = Append(actLog,
                                     queryEvent("maxId", <<baseMatch(tenantId, filters)>>))
                              /\ pending' = [i \in 1 .. Len(report.includeFormats) |->
                                     queryEvent("raw", rawMatch(tenantId, filters, maxObjectId))]
                              /\ pc' = "uploading"
                              /\ UNCHANGED <<snapshotPath, snapshotFile, raised, caught>>
                     ELSE IF rowSource = "none"
                          THEN /\ raised' = "Unable to initialize rows for zip snapshot generation"
                               /\ caught' = raised'
                               /\ pc' = "catch"
                               /\ UNCHANGED <<pending, snapshotPath, snapshotFile, actLog>>
                          ELSE \E error \in {"", "Snapshot size exceeded"}, rmOk \in BOOLEAN :
                                  IF error # ""
                                  THEN /\ actLog' = Append(actLog, snapshotEvent)
                                                        \o rawNow \o <<rmEvent(rmOk)>>
                                       /\ snapshotFile' = rm(TRUE, rmOk)
                                       /\ raised' = error
                                       /\ caught' = error
                                       /\ pc' = "catch"
                                       /\ UNCHANGED <<pending, snapshotPath>>
                                  ELSE /\ actLog' = Append(actLog, snapshotEvent) \o rawNow
                                       /\ snapshotFile' = TRUE
                                       /\ snapshotPath' = "snapshot.ndjson"
                                       /\ pending' = <<>>
                                       /\ pc' = "uploading"
                                       /\ UNCHANGED <<raised, caught>>
           ELSE IF rowSource = "none"
                THEN /\ raised' = "Unable to initialize rows for report generation"
                     /\ caught' = raised'
                     /\ pc' = "catch"
                     /\ UNCHANGED <<pending, snapshotPath, snapshotFile, actLog>>
                ELSE /\ pending' = rawNow
                     /\ pc' = "uploading"
                     /\ UNCHANGED <<snapshotPath, snapshotFile, actLog, raised, caught>>
    /\ UNCHANGED <<cfg, jobDoc, msg, report, filters, rowSource, uploadedArtifact, outcome>>
    /\ UNCHANGED exceptJob

\* Persist uploading, progress 75.
WriteUploading ==
    /\ pc = "uploading"
    /\ \E storeOk \in BOOLEAN :
          IF storeOk
          THEN /\ jobDoc' = uploadingUpdate(jobDoc)
               /\ actLog' = Append(actLog, statusEvent(jobDoc'))
               /\ pc' = "upload"
               /\ UNCHANGED <<raised, caught>>
          ELSE /\ raised' = "jobs store unavailable"
               /\ caught' = raised'
               /\ pc' = "catch"
               /\ UNCHANGED <<jobDoc, actLog>>
    /\ UNCHANGED <<cfg, msg, report, filters, rowSource, pending, snapshotPath,
                   uploadedArtifact, outcome>>
    /\ UNCHANGED snapshotFile
    /\ UNCHANGED exceptJob

hasPdf(rep) ==
    \/ rep.format = "pdf"
    \/ \E i \in DOMAIN rep.includeFormats : rep.includeFormats[i] = "pdf"

\* The formats of the single-format streams the job's generator is built of.
entryFormats(rep) == IF rep.format = "zip" THEN rep.includeFormats ELSE <<rep.format>>

\* createCsvStream and createJsonArrayStream return source.pipe(transform):
\* pipe() forwards no error, so when the rows raise the source is destroyed
\* and the transform neither ends nor fails. createXlsxStream and
\* createPdfStream iterate the rows themselves and destroy their output with
\* the error.
pipesSource(format) == format \in {"csv", "json"}

\* The rows of the reduce result. A job's reduceSpec stands for
\* { groupBy: [], metrics: [count] }: one row when a document matches.
reducedRows(tenantId, filterObj) ==
    IF find(<<baseMatch(tenantId, filterObj)>>) = {} THEN 0 ELSE 1

\* The number of rows each single-format generator of the job is fed: the
\* rows of the reduce result, of the cursor bounded by the probed maximum
\* (multipass), or of the raw cursor (directly or through the snapshot).
generatorRows(rep, filterObj, source) ==
    IF source = "reduced"
    THEN reducedRows(rep.tenantId, filterObj)
    ELSE IF useZipMultipass(rep)
    THEN Cardinality(find(rawMatch(rep.tenantId, filterObj,
                                   readDatasetMaxObjectId(rep.tenantId, filterObj))))
    ELSE Cardinality(find(rawMatch(rep.tenantId, filterObj, NoId)))

\* createPdfStream: index > options.pdfMaxRows throws at that row
pdfThrows(index, pdfMaxRows) == index > pdfMaxRows

\* The errors the generated stream can end with while the adapter reads it:
\* the paginated generator's row limit (raised at row pdfMaxRows + 1 when it
\* is fed that many rows) and, through an entry that destroys its output, an
\* error of a source cursor read while the stream is consumed.
streamErrors(rep, lazyReads, rows) ==
    (IF hasPdf(rep) /\ \E index \in 1 .. rows : pdfThrows(index, reportPdfMaxRows)
     THEN {"PDF row limit exceeded"} ELSE {""})
         \cup (IF /\ lazyReads # <<>>
                  /\ \E i \in DOMAIN entryFormats(rep) : ~pipesSource(entryFormats(rep)[i])
               THEN {"source cursor failed"} ELSE {})

\* A source cursor read while the stream is consumed can fail under an entry
\* built with pipe(): the generated stream then stays open for ever.
streamStalls(rep, lazyReads) ==
    /\ lazyReads # <<>>
    /\ \E i \in DOMAIN entryFormats(rep) : pipesSource(entryFormats(rep)[i])

\* await deps.storage.upload(...): the adapter consumes the stream, which
\* performs the pending source reads. When the stream stays open for ever the
\* call never settles: the activation neither catches nor reaches finally.
Upload ==
    /\ pc = "upload"
    /\ actLog' = Append(actLog, uploadEvent) \o pending
    /\ \/ \E streamError \in streamErrors(report, pending,
                                          generatorRows(report, filters, rowSource)),
             storageFails \in BOOLEAN :
          LET result == upload(cfg.storageMode, cfg.storagePolicy, objectKey(report),
                                   streamError, storageFails)
          IN  /\ raised' = IF streamError # "" THEN streamError ELSE result.threw
              /\ caught' = result.threw
              /\ uploadedArtifact' = result.artifact
              /\ pc' = IF result.threw # "" THEN "catch" ELSE "uploaded"
       \/ /\ streamStalls(report, pending)
          /\ raised' = "source cursor failed"
          /\ pc' = "stalled"
          /\ UNCHANGED <<caught, uploadedArtifact>>
    /\ pending' = <<>>
    /\ UNCHANGED <<cfg, jobDoc, msg, report, filters, rowSource, snapshotPath, outcome>>
    /\ UNCHANGED snapshotFile
    /\ UNCHANGED exceptJob

\* mode: 'raw' unless the reduce branch was taken
modeOf(rep) == IF rep.reduceSpec THEN "reduce" ELSE "raw"

zipStrategyAlwaysSnapshot(rep) ==
    IF rep.format = "zip" THEN "snapshot" ELSE ""

\* zipStrategy: set in the two branches of format === 'zip', absent otherwise
zipStrategyOf(rep) ==
    IF rep.format # "zip" THEN ""
    ELSE IF useZipMultipass(rep) THEN "multipass" ELSE "snapshot"

\* The values rowsIn (= rowsOut for a raw or archive job) can have when the
\* upload has returned: onRow counted every row the first cursor yielded; a
\* stream error the adapter swallowed stopped the count early.
countedRows(rep, filterObj, source, streamError) ==
    LET rows == generatorRows(rep, filterObj, source)
    IN  IF source = "reduced" \/ streamError = "" THEN {rows}
        ELSE IF streamError = "source cursor failed" THEN 0 .. rows
        ELSE IF rep.format = "pdf" THEN {reportPdfMaxRows + 1}
        ELSE {rows}

\* rowsIn of a reduce job: reduced.rowsIn, the matching documents
reduceRowsIn(rep, filterObj) ==
    Cardinality(find(<<baseMatch(rep.tenantId, filterObj)>>))

processingStatsOf(rep, filterObj, source, counted) ==
    [rowsIn |-> IF source = "reduced" THEN reduceRowsIn(rep, filterObj) ELSE counted,
     rowsOut |-> counted,
     mode |-> modeOf(rep),
     zipStrategy |-> zipStrategyOf(rep)]

\* Persist uploaded, progress 100, rowCount, artifact, processingStats,
\* finishedAt, error cleared.
WriteUploaded ==
    /\ pc = "uploaded"
    /\ \E storeOk \in BOOLEAN, counted \in countedRows(report, filters, rowSource, raised) :
          IF storeOk
          THEN /\ jobDoc' = uploadedUpdate(jobDoc,
                                artifactView(uploadedArtifact, artifactEntries(report)),
                                counted,
                                processingStatsOf(report, filters, rowSource, counted))
               /\ actLog' = Append(actLog, statusEvent(jobDoc'))
               /\ outcome' = resolved
               /\ pc' = "finally"
               /\ UNCHANGED <<raised, caught>>
          ELSE /\ raised' = IF raised # "" THEN raised ELSE "jobs store unavailable"
               /\ caught' = "jobs store unavailable"
               /\ pc' = "catch"
               /\ UNCHANGED <<jobDoc, actLog, outcome>>
    /\ UNCHANGED <<cfg, msg, report, filters, rowSource, pending, snapshotPath,
                   uploadedArtifact>>
    /\ UNCHANGED snapshotFile
    /\ UNCHANGED exceptJob

\* catch: persist failed with the error's message, then rethrow; when the
\* write itself fails, its error replaces the caught one.
Catch ==
    /\ pc = "catch"
    /\ \E storeOk \in BOOLEAN :
          IF storeOk
          THEN /\ jobDoc' = failedUpdate(jobDoc, caught)
               /\ actLog' = Append(actLog, statusEvent(jobDoc'))
               /\ outcome' = rejected(caught)
          ELSE /\ outcome' = rejected("jobs store unavailable")
               /\ UNCHANGED <<jobDoc, actLog>>
    /\ pc' = "finally"
    /\ UNCHANGED <<cfg, msg, report, filters, rowSource, pending, snapshotPath,
                   uploadedArtifact, raised, caught>>
    /\ UNCHANGED snapshotFile
    /\ UNCHANGED exceptJob

\* finally: rm(snapshotPath, { force: true }) with its error swallowed; then
\* the queue settles the message.
Finally ==
    /\ pc = "finally"
    /\ IF snapshotPath # ""
       THEN \E rmOk \in BOOLEAN :
               /\ actLog' = Append(actLog, rmEvent(rmOk))
               /\ snapshotFile' = rm(snapshotFile, rmOk)
       ELSE UNCHANGED <<actLog, snapshotFile>>
    /\ snapshotPath' = ""
    /\ msg' = settle(msg, outcome)
    /\ pc' = "idle"
    /\ UNCHANGED <<cfg, jobDoc, report, filters, rowSource, pending, uploadedArtifact,
                   raised, caught, outcome>>
    /\ UNCHANGED exceptJob

Next ==
    \/ CreateReport
    \/ ExpireJob
    \/ Activate
    \/ WriteRunning
    \/ AssertReadReplica
    \/ Plan
    \/ RunReduce
    \/ Generate
    \/ WriteUploading
    \/ Upload
    \/ WriteUploaded
    \/ Catch
    \/ Finally

Spec == Init /\ [][Next]_vars

\* ---- claims on Spec

\* The activation's promise has settled: it returned or it rejected.
Settled == outcome.kind # "none"

statusWrites == SelectSeq(actLog, LAMBDA e : e.kind = "status")

sourceQueries == SelectSeq(actLog, LAMBDA e : e.kind = "query")

\* The status writes and the storage uploads of the activation, in order.
writesAndUploads ==
    LET steps == SelectSeq(actLog, LAMBDA e : e.kind \in {"status", "upload"})
    IN  [i \in DOMAIN steps |->
            IF steps[i].kind = "upload"
            THEN <<"upload", 0>>
            ELSE <<steps[i].val.status, steps[i].val.progress>>]

SuccessfulSequence ==
    <<<<"running", 10>>, <<"uploading", 75>>, <<"upload", 0>>, <<"uploaded", 100>>>>

lastStatusWrite == statusWrites[Len(statusWrites)]

helloSaidPrimary ==
    \E i \in DOMAIN actLog :
        actLog[i].kind = "hello" /\ actLog[i].val.isWritablePrimary

\* C1 as stated: every activation that ends without error has written running
\* (10), uploading (75), uploaded (100) in that order and nothing else, with
\* exactly one upload between the last two. The activation that does not find
\* the job document also ends without error, having written nothing.
C1_AsStated ==
    (Settled /\ outcome.kind = "resolved") => writesAndUploads = SuccessfulSequence

\* C1: an activation that loads the job document and ends without error has
\* written exactly running (progress 10), uploading (progress 75), uploaded
\* (progress 100), in that order, and has invoked the storage upload exactly
\* once, after the uploading write and before the uploaded write.
C1_SuccessfulActivationWrites ==
    (Settled /\ outcome.kind = "resolved" /\ report # NoJob) =>
        writesAndUploads = SuccessfulSequence

\* A raw job whose activation returned after reading the source and uploading.
C1_Witness ==
    /\ Settled
    /\ outcome.kind = "resolved"
    /\ report # NoJob
    /\ pc = "idle"
    /\ msg.state = "completed"
    /\ Len(sourceQueries) > 0
    /\ Len(statusWrites) = 3

\* C2: once the job's status is failed (or uploaded) it never moves back to
\* running or uploading, over every sequence of deliveries of the message.
C2_TerminalStatusIsFinal ==
    [][jobDoc.status \in {"failed", "uploaded"} =>
           jobDoc'.status \notin {"running", "uploading"}]_vars

\* C3: when an error was raised in an activation after the running write, the
\* last status the activation wrote is failed, with finishedAt and with
\* error.message equal to that error's message, and the activation rejects
\* with that same error.
C3_RaisedErrorEndsFailedAndRejects ==
    (Settled /\ raised # "") =>
        /\ lastStatusWrite.val.status = "failed"
        /\ lastStatusWrite.val.finishedAt
        /\ lastStatusWrite.val.message = raised
        /\ outcome = rejected(raised)

\* C4: the progress of the job document never decreases from one write to the
\* next, retries included.
C4_ProgressNonDecreasing ==
    [][(jobDoc # NoJob /\ jobDoc' # NoJob) => jobDoc'.progress >= jobDoc.progress]_vars

\* C5: every query the processor issues on the source collection matches only
\* documents of the job's tenant, whatever the job's filters hold.
C5_QueriesStayInTenant ==
    \A i \in DOMAIN actLog :
        actLog[i].kind = "query" =>
            \A doc \in find(actLog[i].val.match) :
                doc[Key("tenantId")] = report.tenantId

identityBeforeReads ==
    \A i \in DOMAIN actLog :
        actLog[i].kind \in {"query", "upload"} =>
            \E j \in 1 .. i - 1 : actLog[j].kind = "hello"

noReadNoUpload ==
    \A i \in DOMAIN actLog : actLog[i].kind \notin {"query", "upload"}

\* C6 as stated: the identity check precedes every source read, and when it
\* reports a writable primary the activation ends with status failed, without
\* a source query or an upload. The failed write can itself fail.
C6_AsStated ==
    /\ identityBeforeReads
    /\ (Settled /\ helloSaidPrimary) =>
           /\ noReadNoUpload
           /\ lastStatusWrite.val.status = "failed"

\* C6: in every activation the identity check of the read endpoint precedes
\* every source read; when it reports a writable primary the activation
\* issues no source query and no upload, rejects, and its last status write
\* is failed unless that write itself failed (the activation then rejects
\* with the store's error and the last status written stays running).
C6_IdentityCheckGuardsReads ==
    /\ identityBeforeReads
    /\ (Settled /\ helloSaidPrimary) =>
           /\ noReadNoUpload
           /\ outcome.kind = "rejected"
           /\ IF outcome.error = "jobs store unavailable"
              THEN lastStatusWrite.val.status = "running"
              ELSE /\ lastStatusWrite.val.status = "failed"
                   /\ outcome.error = assertReadReplica([isWritablePrimary |-> TRUE])

\* An activation refused on a writable primary, whose failed write was stored.
C6_Witness ==
    /\ Settled
    /\ helloSaidPrimary
    /\ pc = "idle"
    /\ jobDoc.status = "failed"
    /\ jobDoc.error = assertReadReplica([isWritablePrimary |-> TRUE])
    /\ msg.attemptsMade = 1

\* ===================================================================
\* SpecAccumulator: createReduceAccumulator(spec, { maxGroups }) and a
\* sequence of consume calls on it.
\* ===================================================================

\* Consume calls made on one accumulator.
MaxConsumes == 4

AccSpec == [groupBy |-> <<"g">>, metrics |-> Metrics]

\* The partial rows fed to consume: the $group output of one document, for
\* three groups (g = 1, g = 2, g missing) and two amounts.
AccRows ==
    UNION {aggregateRows((0 :> [present |-> TRUE, g |-> g, amount |-> amount]),
                         buildReducePartitionPipeline(
                             [index |-> 0, startInclusive |-> 0, endExclusive |-> NoId],
                             AccSpec))
           : g \in {1, 2, Undef}, amount \in {Null, 1}}

AccInit ==
    /\ acMaxGroups \in 1 .. MaxGroupsDrawn
    /\ acState = createReduceAccumulator
    /\ acCalls = 0
    /\ acThrows = 0
    /\ acLast = [row |-> <<>>, threw |-> FALSE]
    /\ IdleExceptAcc

\* accumulator.consume(row)
AccConsume ==
    /\ acCalls < MaxConsumes
    /\ \E row \in AccRows :
          /\ acCalls' = acCalls + 1
          /\ IF consumeThrows(acState, AccSpec, acMaxGroups, row)
             THEN /\ acLast' = [row |-> row, threw |-> TRUE]
                  /\ acThrows' = acThrows + 1
                  /\ UNCHANGED acState
             ELSE /\ acLast' = [row |-> row, threw |-> FALSE]
                  /\ acState' = consume(acState, AccSpec, row)
                  /\ UNCHANGED acThrows
    /\ UNCHANGED acMaxGroups
    /\ UNCHANGED exceptAcc

SpecAccumulator == AccInit /\ [][AccConsume]_vars

\* accumulator.groupCount()
groupCount == Cardinality(DOMAIN acState)

\* C11: an accumulator created with maxGroups = m never holds more than m
\* groups; a consume throws exactly when its row's group is new while m
\* groups are held, and then leaves the groups and their values unchanged; a
\* consume for a group already held succeeds, adds no group and counts the
\* row's inputs.
C11_MaxGroupsEnforced ==
    /\ [](groupCount <= acMaxGroups)
    /\ [][acCalls' = acCalls + 1 =>
             LET key == consumeKey(AccSpec, acLast'.row)
                 known == key \in DOMAIN acState
             IN  /\ acLast'.threw <=> (~known /\ groupCount >= acMaxGroups)
                 /\ acLast'.threw => acState' = acState
                 /\ known =>
                        /\ DOMAIN acState' = DOMAIN acState
                        /\ acState'[key].inputCount = acState[key].inputCount + 1
                        /\ \A other \in DOMAIN acState \ {key} :
                               acState'[other] = acState[other]]_vars

\* A consume for a known group succeeded on a full accumulator that had
\* already refused a new group.
C11_Witness ==
    /\ acThrows >= 1
    /\ ~acLast.threw
    /\ acCalls >= 3
    /\ groupCount = acMaxGroups
    /\ acMaxGroups = 2

\* ---- C24

\* C24: a reduce whose partial rows hold more than maxGroups distinct groups
\* never returns rows to the processor: the call rejects (the processor then
\* records failed and uploads nothing), with the streaming accumulator (v2)
\* and with the buffered merge (v1) alike.
C24_CardinalityRejectsInBothEngines ==
    (rdCall \in {"returned", "rejected"} /\ Cardinality(GroupTuples) > rdMaxGroups) =>
        rdCall = "rejected"

\* ---- C23

\* The number of identifiers range i of the call covers within [min, max].
rangeSize(i) ==
    IF ranges[i].endExclusive # NoId
    THEN ranges[i].endExclusive - ranges[i].startInclusive
    ELSE SetMax(PresentDocs) - ranges[i].startInclusive + 1

\* C23: a reduce over a non-empty dataset builds, and reports as chunks,
\* exactly k ranges, k the requested number of chunks (partitionSpec.chunks,
\* else the configured default; the program has no further cap), and the k
\* ranges are contiguous and cover the same number of identifiers.
C23_RequestedChunksEqualRanges ==
    (rdCall = "returned" /\ PresentDocs # {}) =>
        /\ Len(ranges) = rdChunksReq
        /\ rdResult.chunks = rdChunksReq
        /\ \A i \in 1 .. Len(ranges) - 1 :
               ranges[i].endExclusive = ranges[i + 1].startInclusive
        /\ \A i, j \in 1 .. Len(ranges) : rangeSize(i) = rangeSize(j)

\* ---- C22

\* The minimum (op = "min") or maximum of the non-null values among two
\* values; null when both are null or undefined.
nonNullExtreme(op, left, right) ==
    LET l == pickComparable(left)
        r == pickComparable(right)
    IN  IF l = Null THEN r
        ELSE IF r = Null THEN l
        ELSE IF op = "min" THEN Min2(l, r) ELSE Max2(l, r)

\* C22: after every consume that succeeds, the value accumulated for a min
\* (max) metric of the row's group is the minimum (maximum) of the non-null
\* partial values consumed for the group so far, null only when all of them
\* were null, wherever the null partials stand in the sequence.
C22_MinMaxOfNonNullPartials ==
    [][(acCalls' = acCalls + 1 /\ ~acLast'.threw) =>
          LET key == consumeKey(AccSpec, acLast'.row)
              before(as) == IF key \in DOMAIN acState
                            THEN acState[key].values[as] ELSE Undef
          IN  \A i \in 1 .. Len(AccSpec.metrics) :
                 LET metric == AccSpec.metrics[i]
                 IN  metric.op \in {"min", "max"} =>
                        acState'[key].values[metric.as] =
                           nonNullExtreme(metric.op, before(metric.as),
                                          rowField(acLast'.row, metric.as))]_vars

\* ---- C12

\* The activation has ended: its promise settled and finally has run.
Ended == Settled /\ pc = "idle"

tookSnapshotPath == \E i \in DOMAIN actLog : actLog[i].kind = "snapshot"

rmEvents == SelectSeq(actLog, LAMBDA e : e.kind = "rm")

\* C12 as stated: once an activation that took the archive-snapshot path has
\* ended, its snapshot file does not exist. The delete can fail, and its
\* error is swallowed.
C12_AsStated == (Ended /\ tookSnapshotPath) => ~snapshotFile

\* C12: an activation that took the archive-snapshot path has, once it has
\* ended (uploaded or failed, wherever the failure occurred), attempted the
\* delete of its snapshot file exactly once; the file exists afterwards only
\* if that delete failed, and the failing delete does not change how the
\* activation ends.
C12_SnapshotRemovedUnlessRmFails ==
    (Ended /\ tookSnapshotPath) =>
        /\ Len(rmEvents) = 1
        /\ snapshotFile <=> ~rmEvents[1].val.ok
        /\ (outcome.kind = "resolved") <=> (lastStatusWrite.val.status = "uploaded")

\* A snapshot-path activation that failed during the upload and whose file
\* was removed by finally.
C12_Witness ==
    /\ Ended
    /\ tookSnapshotPath
    /\ ~snapshotFile
    /\ outcome.kind = "rejected"
    /\ \E i \in DOMAIN actLog : actLog[i].kind = "upload"

\* ---------------------------------------------------------------------------
\* SpecTicker: the schedule store shared by the intake's schedule routes and
\* by the schedule tickers of the worker processes.  Time is counted in
\* minutes and read from one clock; every await of the code is one step.
\* ---------------------------------------------------------------------------

MaxTime == 1

MaxPatches == 1

Tickers == {1, 2}

TickCalls == {1, 2}

ScheduleIds == {1}

Crons == {"* * * * *", "*/2 * * * *", "not a cron"}

NoSchedule == [cron |-> ""]

NoDue == [_id |-> 0]

\* the mutant of computeNextRunAt: every expression parses
computeNextRunAtLenient(cronExpression, fromDate) ==
    [threw |-> FALSE, date |-> fromDate + 1]

\* CronExpressionParser.parse(...).next(): the first occurrence strictly
\* after fromDate, or an exception for an expression that does not parse
computeNextRunAt(cronExpression, fromDate) ==
    IF cronExpression = "* * * * *"
    THEN [threw |-> FALSE, date |-> fromDate + 1]
    ELSE IF cronExpression = "*/2 * * * *"
         THEN [threw |-> FALSE, date |-> ((fromDate \div 2) + 1) * 2]
         ELSE [threw |-> TRUE, date |-> Null]

\* the filter {enabled: true, nextRunAt: {$lte: now}} of the tick's findOne
isDue(doc, now) ==
    /\ doc # NoSchedule
    /\ doc.enabled
    /\ doc.nextRunAt # Null
    /\ doc.nextRunAt <= now

\* the filter {_id, enabled: true, nextRunAt: due.nextRunAt} of the tick's
\* findOneAndUpdate
updateMatches(doc, due) ==
    /\ doc # NoSchedule
    /\ doc.enabled
    /\ doc.nextRunAt = due.nextRunAt

\* the mutant of tickSkips: no re-entrancy guard
tickNeverSkips(flag) == FALSE

\* if (running) return
tickSkips(flag) == flag

\* the mutant of patchNextRunAt: nextRunAt is never recomputed
patchNextRunAtKept(payload, merged, now) ==
    [threw |-> FALSE, date |-> merged.nextRunAt]

\* if (payload.cron || payload.timezone || payload.enabled !== undefined)
\*   nextState.nextRunAt = nextState.enabled ? computeNextRunAtFn(...) : undefined
patchNextRunAt(payload, merged, now) ==
    IF payload.cron # "" \/ payload.enabled # ""
    THEN IF merged.enabled
         THEN computeNextRunAt(merged.cron, now)
         ELSE [threw |-> FALSE, date |-> Null]
    ELSE [threw |-> FALSE, date |-> merged.nextRunAt]

\* nextState = {...existing, ...payload}, then the nextRunAt rule
patchNextState(existing, payload, now) ==
    LET merged == [enabled   |-> IF payload.enabled = "" THEN existing.enabled
                                 ELSE payload.enabled = "true",
                   cron      |-> IF payload.cron = "" THEN existing.cron
                                 ELSE payload.cron,
                   nextRunAt |-> existing.nextRunAt]
        next == patchNextRunAt(payload, merged, now)
    IN [threw |-> next.threw,
        state |-> [merged EXCEPT !.nextRunAt = next.date]]

\* the bodies a PATCH request can carry: cron and enabled are optional
PatchPayloads ==
    {[cron |-> "", enabled |-> ""], [cron |-> "", enabled |-> "true"],
     [cron |-> "", enabled |-> "false"], [cron |-> "*/2 * * * *", enabled |-> ""],
     [cron |-> "not a cron", enabled |-> ""]}

\* A schedule's tenantId is written by POST only: no later write touches it.
scheduleTenant(id) == IF id = 1 THEN "A" ELSE "B"

dedupeIdNone(reportJobId) == 0

\* jobId: reportJobId.toHexString() in the options of queue.add
dedupeId(reportJobId) == reportJobId

\* yielded: the jobs the running tick has inserted so far (the schedule, the
\* now of the pass and the nextRunAt it wrote), kept for the claims only
idleCall == [pc |-> "idle", now |-> 0, due |-> NoDue, nextRunAt |-> Null,
             claim |-> 0, reportJobId |-> 0, yielded |-> <<>>]

\* the next pass of the loop (continue, or the end of the loop body)
nextPass(call) == [idleCall EXCEPT !.pc = "findOne", !.yielded = call.yielded]

\* the mutant of nextRunFrom: the next run is computed from the stored date
nextRunFromStored(due, now) == due.nextRunAt

\* the fromDate of computeNextRunAtFn(due.cron, due.timezone, now)
nextRunFrom(due, now) == now

\* the store before the processes start: each schedule is absent or was
\* written earlier (seed data, an earlier parser version), enabled and due
SeededSchedules ==
    {NoSchedule} \cup {[enabled |-> TRUE, cron |-> c, nextRunAt |-> 0] : c \in Crons}

TickInit ==
    /\ IdleExceptTick
    /\ clock = 0
    /\ patches = <<>>
    /\ running = [t \in Tickers |-> FALSE]
    /\ calls = [tc \in Tickers \X TickCalls |-> idleCall]
    /\ lastCall = [t \in Tickers |-> "none"]
    /\ fired = <<>>
    /\ scheduledJobs = <<>>
    /\ enqueued = <<>>
    /\ schedules \in [ScheduleIds -> SeededSchedules]

\* a minute passes
ClockAdvance ==
    /\ clock < MaxTime
    /\ clock' = clock + 1
    /\ UNCHANGED <<schedules, patches, running, calls, lastCall, fired,
                   scheduledJobs, enqueued, exceptTick>>

\* POST /v1/report-schedules: an expression that does not parse raises before
\* the insert
PostSchedule(id, cron, enabled) ==
    LET next == computeNextRunAt(cron, clock)
    IN /\ schedules[id] = NoSchedule
       /\ ~next.threw
       /\ schedules' = [schedules EXCEPT ![id] =
              [enabled |-> enabled, cron |-> cron, nextRunAt |-> next.date]]
       /\ UNCHANGED <<clock, patches, running, calls, lastCall, fired,
                      scheduledJobs, enqueued, exceptTick>>

\* PATCH /v1/report-schedules/:id up to its updateOne: findOne, merge,
\* recompute; a raised computeNextRunAtFn ends the request without a write
PatchFindOne(id, payload) ==
    LET next == patchNextState(schedules[id], payload, clock)
    IN /\ Len(patches) < MaxPatches
       /\ schedules[id] # NoSchedule
       /\ ~next.threw
       /\ patches' = Append(patches,
              [pc |-> "updateOne", _id |-> id, nextState |-> next.state,
               payload |-> payload])
       /\ UNCHANGED <<clock, schedules, running, calls, lastCall, fired,
                      scheduledJobs, enqueued, exceptTick>>

\* the updateOne of the PATCH: $set of every field of nextState
PatchUpdateOne(p) ==
    /\ p \in DOMAIN patches
    /\ patches[p].pc = "updateOne"
    /\ schedules' = [schedules EXCEPT ![patches[p]._id] = patches[p].nextState]
    /\ patches' = [patches EXCEPT ![p].pc = "done", ![p].nextState = NoSchedule]
    /\ UNCHANGED <<clock, running, calls, lastCall, fired, scheduledJobs,
                   enqueued, exceptTick>>

\* DELETE /v1/report-schedules/:id: $set {enabled: false, nextRunAt: undefined}
DeleteSchedule(id) ==
    /\ schedules[id] # NoSchedule
    /\ schedules' = [schedules EXCEPT ![id].enabled = FALSE,
                                      ![id].nextRunAt = Null]
    /\ UNCHANGED <<clock, patches, running, calls, lastCall, fired,
                   scheduledJobs, enqueued, exceptTick>>

\* tickNow(): returns at once while a tick is running, else raises the flag
\* and enters runSchedulesTick; a call takes the first free slot of its ticker
TickNow(t, c) ==
    /\ calls[<<t, c>>].pc = "idle"
    /\ \A c2 \in TickCalls : c2 < c => calls[<<t, c2>>].pc # "idle"
    /\ IF tickSkips(running[t])
       THEN /\ lastCall' = [lastCall EXCEPT ![t] = "skipped"]
            /\ UNCHANGED <<running, calls>>
       ELSE /\ lastCall' = [lastCall EXCEPT ![t] = "ran"]
            /\ running' = [running EXCEPT ![t] = TRUE]
            /\ calls' = [calls EXCEPT ![<<t, c>>].pc = "findOne"]
    /\ UNCHANGED <<clock, schedules, patches, fired, scheduledJobs, enqueued,
                   exceptTick>>

\* one pass of the loop head: now, findOne of a due schedule, the break when
\* there is none (and the finally of tickNow), computeNextRunAtFn and its catch
TickFindOne(t, c) ==
    LET now == clock
        dueIds == {id \in ScheduleIds : isDue(schedules[id], now)}
    IN /\ calls[<<t, c>>].pc = "findOne"
       /\ IF dueIds = {}
          THEN /\ calls' = [calls EXCEPT ![<<t, c>>] = idleCall]
               /\ running' = [running EXCEPT ![t] = FALSE]
               /\ lastCall' = [lastCall EXCEPT ![t] = "none"]
          ELSE /\ \E id \in dueIds :
                    LET due == [_id |-> id, tenantId |-> scheduleTenant(id),
                                cron |-> schedules[id].cron,
                                nextRunAt |-> schedules[id].nextRunAt]
                        next == computeNextRunAt(due.cron, nextRunFrom(due, now))
                    IN calls' = [calls EXCEPT ![<<t, c>>] =
                           [pc |-> IF next.threw THEN "disable"
                                   ELSE "findOneAndUpdate",
                            now |-> now, due |-> due, nextRunAt |-> next.date,
                            claim |-> 0, reportJobId |-> 0,
                            yielded |-> calls[<<t, c>>].yielded]]
               /\ UNCHANGED <<running, lastCall>>
       /\ UNCHANGED <<clock, schedules, patches, fired, scheduledJobs, enqueued,
                      exceptTick>>

\* the mutant of disabledSchedule: the catch branch writes nothing
disabledScheduleKept(doc) == doc

\* $set: {enabled: false, updatedAt: now}
disabledSchedule(doc) == [doc EXCEPT !.enabled = FALSE]

\* the catch branch: updateOne({_id}, {$set: {enabled: false}}), continue
TickDisable(t, c) ==
    LET call == calls[<<t, c>>]
    IN /\ call.pc = "disable"
       /\ schedules' = [schedules EXCEPT
              ![call.due._id] = disabledSchedule(schedules[call.due._id])]
       /\ calls' = [calls EXCEPT ![<<t, c>>] = nextPass(call)]
       /\ UNCHANGED <<clock, patches, running, lastCall, fired, scheduledJobs,
                      enqueued, exceptTick>>

\* the conditional advance; if (!updated) continue
TickFindOneAndUpdate(t, c) ==
    LET call == calls[<<t, c>>]
    IN /\ call.pc = "findOneAndUpdate"
       /\ IF updateMatches(schedules[call.due._id], call.due)
          THEN /\ schedules' = [schedules EXCEPT
                      ![call.due._id].nextRunAt = call.nextRunAt]
               /\ fired' = Append(fired, [schedule |-> call.due._id,
                      firing |-> call.due.nextRunAt, ticker |-> t])
               /\ calls' = [calls EXCEPT ![<<t, c>>].pc = "insertOne",
                                          ![<<t, c>>].claim = Len(fired) + 1]
          ELSE /\ calls' = [calls EXCEPT ![<<t, c>>] = nextPass(call)]
               /\ UNCHANGED <<schedules, fired>>
       /\ UNCHANGED <<clock, patches, running, lastCall, scheduledJobs,
                      enqueued, exceptTick>>

\* const reportJobId = new ObjectId(); jobsCollection.insertOne of the
\* queued job built from due. The identifier is new: the number of the insert.
TickInsertOne(t, c) ==
    LET call == calls[<<t, c>>]
        reportJobId == Len(scheduledJobs) + 1
    IN /\ call.pc = "insertOne"
       /\ scheduledJobs' = Append(scheduledJobs, [schedule |-> call.due._id,
              firing |-> call.due.nextRunAt, ticker |-> t, cron |-> call.due.cron,
              status |-> "queued", _id |-> reportJobId, claim |-> call.claim,
              tenantId |-> call.due.tenantId, progress |-> 0,
              artifactReason |-> "PENDING"])
       /\ calls' = [calls EXCEPT ![<<t, c>>].pc = "add",
                                  ![<<t, c>>].reportJobId = reportJobId,
                                  ![<<t, c>>].yielded = Append(call.yielded,
                                      [schedule |-> call.due._id, now |-> call.now,
                                       firing |-> call.due.nextRunAt,
                                       claim |-> call.claim,
                                       nextRunAt |-> call.nextRunAt])]
       /\ UNCHANGED <<clock, schedules, patches, running, lastCall, fired,
                      enqueued, exceptTick>>

\* queue.add of the message for that job, then the next pass
TickAdd(t, c) ==
    LET call == calls[<<t, c>>]
    IN /\ call.pc = "add"
       /\ enqueued' = Append(enqueued,
              [schedule |-> call.due._id, firing |-> call.due.nextRunAt, ticker |-> t,
               attempts |-> Attempts,
               data |-> [reportJobId |-> call.reportJobId, tenantId |-> call.due.tenantId],
               jobId |-> dedupeId(call.reportJobId)])
       /\ calls' = [calls EXCEPT ![<<t, c>>] = nextPass(call)]
       /\ UNCHANGED <<clock, schedules, patches, running, lastCall, fired,
                      scheduledJobs, exceptTick>>

TickNext ==
    \/ ClockAdvance
    \/ \E id \in ScheduleIds, cron \in Crons, enabled \in BOOLEAN :
           PostSchedule(id, cron, enabled)
    \/ \E id \in ScheduleIds, payload \in PatchPayloads : PatchFindOne(id, payload)
    \/ \E p \in 1..MaxPatches : PatchUpdateOne(p)
    \/ \E id \in ScheduleIds : DeleteSchedule(id)
    \/ \E t \in Tickers, c \in TickCalls : TickNow(t, c)
    \/ \E t \in Tickers, c \in TickCalls : TickFindOne(t, c)
    \/ \E t \in Tickers, c \in TickCalls : TickDisable(t, c)
    \/ \E t \in Tickers, c \in TickCalls : TickFindOneAndUpdate(t, c)
    \/ \E t \in Tickers, c \in TickCalls : TickInsertOne(t, c)
    \/ \E t \in Tickers, c \in TickCalls : TickAdd(t, c)

SpecTicker == TickInit /\ [][TickNext]_vars

\* the steps of one call of runSchedulesTick
TickStep(t, c) ==
    \/ TickFindOne(t, c)
    \/ TickDisable(t, c)
    \/ TickFindOneAndUpdate(t, c)
    \/ TickInsertOne(t, c)
    \/ TickAdd(t, c)

\* SpecTicker with the scheduling of the code: every await of a running tick
\* is answered (the store and the queue respond), so a tick that can take its
\* next step takes it.  Nothing is assumed of the clock, the routes or the
\* calls of tickNow.
SpecTickerFair ==
    /\ TickInit
    /\ [][TickNext]_vars
    /\ \A t \in Tickers, c \in TickCalls : WF_vars(TickStep(t, c))

sameFiring(a, b) == a.schedule = b.schedule /\ a.firing = b.firing

oncePerFiring(log) ==
    \A i, j \in DOMAIN log : sameFiring(log[i], log[j]) => i = j

\* C13: for each schedule and each due value of nextRunAt at most one
\* conditional update of a ticker matches, at most one job document is inserted
\* and at most one message is enqueued for that firing, and every inserted job
\* and every message belongs to a ticker whose update matched.
C13_OneMatchPerFiring ==
    /\ oncePerFiring(fired)
    /\ oncePerFiring(scheduledJobs)
    /\ oncePerFiring(enqueued)
    /\ \A j \in DOMAIN scheduledJobs : \E i \in DOMAIN fired :
           sameFiring(fired[i], scheduledJobs[j])
           /\ fired[i].ticker = scheduledJobs[j].ticker
    /\ \A m \in DOMAIN enqueued : \E j \in DOMAIN scheduledJobs :
           sameFiring(scheduledJobs[j], enqueued[m])
           /\ scheduledJobs[j].ticker = enqueued[m].ticker

loopsOf(t) == {c \in TickCalls : calls[<<t, c>>].pc # "idle"}

\* C14: within one ticker at most one execution of the tick loop is in
\* progress; a tickNow call that arrives while the flag is raised never enters
\* the loop, and the step of such a call leaves the schedules, the inserted
\* jobs, the enqueued messages and the running tick untouched.
C14_ReentrancyGuard ==
    /\ [](\A t \in Tickers : Cardinality(loopsOf(t)) <= 1)
    /\ [][\A t \in Tickers :
            /\ running[t] =>
                   \A c \in TickCalls :
                       calls[<<t, c>>].pc = "idle" => calls'[<<t, c>>].pc = "idle"
            /\ (lastCall[t] # "skipped" /\ lastCall'[t] = "skipped") =>
                   /\ running[t]
                   /\ UNCHANGED <<schedules, fired, scheduledJobs, enqueued,
                                  calls, running>>]_vars

\* a call was skipped while the tick of its ticker is in the middle of a firing
C14_Witness ==
    \E t \in Tickers :
        /\ lastCall[t] = "skipped"
        /\ \E c \in TickCalls : calls[<<t, c>>].pc = "insertOne"

\* C15: a due schedule whose cron expression does not parse goes to the
\* disable branch and nowhere else; that branch writes enabled = false and
\* inserts and enqueues nothing; no job exists for such an expression; a tick
\* selects only schedules stored with enabled = true, and enabled goes from
\* false to true only by a write of the intake.
C15_InvalidCronDisabled ==
    /\ [](\A tc \in Tickers \X TickCalls :
            /\ calls[tc].pc = "disable" => calls[tc].due.cron = "not a cron"
            /\ calls[tc].pc \in {"findOneAndUpdate", "insertOne", "add"} =>
                   calls[tc].due.cron # "not a cron")
    /\ [](\A j \in DOMAIN scheduledJobs : scheduledJobs[j].cron # "not a cron")
    /\ [](Len(enqueued) <= Len(scheduledJobs))
    /\ [][\A tc \in Tickers \X TickCalls :
            /\ (calls[tc].pc = "disable" /\ calls'[tc].pc # "disable") =>
                   /\ ~schedules'[calls[tc].due._id].enabled
                   /\ calls'[tc].pc = "findOne"
                   /\ UNCHANGED <<scheduledJobs, enqueued>>
            /\ (calls[tc].pc = "findOne"
                    /\ calls'[tc].pc \in {"disable", "findOneAndUpdate"}) =>
                   schedules[calls'[tc].due._id].enabled]_vars
    /\ [][\A id \in ScheduleIds :
            (schedules[id] # NoSchedule /\ ~schedules[id].enabled
                 /\ schedules'[id].enabled) =>
                \E p \in DOMAIN patches :
                    patches[p].pc = "updateOne" /\ patches'[p].pc = "done"]_vars

\* a schedule with an unparsable expression was disabled by a tick (the intake
\* clears nextRunAt when it disables) and later ticks ran without a job for it
C15_Witness ==
    /\ \E id \in ScheduleIds :
           /\ schedules[id] # NoSchedule
           /\ schedules[id].cron = "not a cron"
           /\ ~schedules[id].enabled
           /\ schedules[id].nextRunAt # Null
    /\ clock > 0
    /\ \A t \in Tickers : ~running[t]
    /\ scheduledJobs = <<>>

\* C16: every stored schedule with enabled = true has nextRunAt set.
C16_EnabledHasNextRunAt ==
    \A id \in ScheduleIds :
        (schedules[id] # NoSchedule /\ schedules[id].enabled) =>
            schedules[id].nextRunAt # Null

\* an enabled schedule after a tick fired it, the intake disabled it and a
\* PATCH wrote it
C16_Witness ==
    /\ Len(fired) > 0
    /\ \E p \in DOMAIN patches : patches[p].pc = "done"
    /\ \E id \in ScheduleIds :
           /\ schedules[id] # NoSchedule
           /\ schedules[id].enabled
           /\ schedules[id].nextRunAt > clock

\* ---- C17 (on Spec)

uploadAttempted == \E i \in DOMAIN actLog : actLog[i].kind = "upload"

\* storage.upload threw: the activation holds no descriptor after the call
uploadThrew == uploadAttempted /\ uploadedArtifact = NoArtifact /\ pc \notin {"upload"}

noopArtifact(reason) ==
    [mode |-> "noop", available |-> FALSE, reason |-> reason,
     key |-> objectKey(report)]

endedUploadedWith(artifact) ==
    /\ lastStatusWrite.val.status = "uploaded"
    /\ jobDoc.status = "uploaded"
    /\ jobDoc.artifact = artifactView(artifact, artifactEntries(report))
    /\ outcome = resolved

keyedWhenAvailable ==
    (jobDoc # NoJob /\ jobDoc.artifact.available) => jobDoc.artifact.key # <<>>

\* C17 as stated: a failed upload under policy required ends the activation
\* with status failed, a failed upload under policy optional ends it uploaded
\* with the OPTIONAL_INTEGRATION_FAILURE descriptor, an upload with external
\* storage disabled ends it uploaded with the EXTERNAL_STORAGE_DISABLED
\* descriptor, and no available artifact is recorded without a key. The status
\* write that follows the upload can itself fail.
C17_AsStated ==
    /\ keyedWhenAvailable
    /\ (Ended /\ uploadAttempted) =>
           /\ (uploadThrew /\ cfg.storageMode # "noop") =>
                  lastStatusWrite.val.status = "failed"
           /\ uploadedArtifact.reason = "OPTIONAL_INTEGRATION_FAILURE" =>
                  endedUploadedWith(noopArtifact("OPTIONAL_INTEGRATION_FAILURE"))
           /\ (cfg.storageMode = "noop" /\ ~uploadThrew) =>
                  endedUploadedWith(noopArtifact("EXTERNAL_STORAGE_DISABLED"))

\* what an activation ends with after its upload returned the descriptor: the
\* uploaded write stored it, or that write failed and the catch block ran
uploadedUnlessWriteFails(artifact) ==
    /\ uploadedArtifact = artifact
    /\ pending = <<>>
    /\ \/ endedUploadedWith(artifact)
       \/ /\ outcome = rejected("jobs store unavailable")
          /\ lastStatusWrite.val.status \in {"failed", "uploading"}
          /\ lastStatusWrite.val.status = "failed" =>
                 lastStatusWrite.val.message = "jobs store unavailable"

\* C17: an upload throws only under policy required or with storage disabled
\* (then only the generator's error); the activation then rejects and its
\* last status write is failed with the upload's error unless that write
\* itself failed (status stays uploading). Under policy optional a failed
\* upload returns {noop, not available, OPTIONAL_INTEGRATION_FAILURE}, with
\* storage disabled a consumed stream returns {noop, not available,
\* EXTERNAL_STORAGE_DISABLED}, and the activation ends uploaded with that
\* descriptor unless the uploaded write failed. No available artifact is
\* recorded without a key.
C17_StoragePolicyOutcome ==
    /\ keyedWhenAvailable
    /\ (Ended /\ uploadAttempted) =>
           /\ uploadThrew =>
                  /\ cfg.storageMode = "noop" \/ cfg.storagePolicy = "required"
                  /\ cfg.storageMode = "noop" => raised # "storage write failed"
                  /\ outcome.kind = "rejected"
                  /\ IF outcome.error = "jobs store unavailable"
                     THEN lastStatusWrite.val.status = "uploading"
                     ELSE /\ lastStatusWrite.val.status = "failed"
                          /\ lastStatusWrite.val.message = raised
                          /\ outcome.error = raised
           /\ uploadedArtifact.reason = "OPTIONAL_INTEGRATION_FAILURE" =>
                  /\ cfg.storagePolicy = "optional" /\ cfg.storageMode # "noop"
                  /\ uploadedUnlessWriteFails(noopArtifact("OPTIONAL_INTEGRATION_FAILURE"))
           /\ (cfg.storageMode = "noop" /\ ~uploadThrew) =>
                  uploadedUnlessWriteFails(noopArtifact("EXTERNAL_STORAGE_DISABLED"))
           /\ (cfg.storagePolicy = "optional" /\ cfg.storageMode # "noop") =>
                  ~uploadThrew

\* an activation under policy optional whose upload failed and that ended
\* uploaded with the fallback descriptor
C17_Witness ==
    /\ Ended
    /\ cfg.storagePolicy = "optional"
    /\ jobDoc.status = "uploaded"
    /\ jobDoc.artifact = noopArtifact("OPTIONAL_INTEGRATION_FAILURE")
    /\ msg.state = "completed"

\* ---------------------------------------------------------------------------
\* SpecShutdown: the shutdown closure of startWorker and the two signal
\* handlers that call it.
\* ---------------------------------------------------------------------------

MaxShutdownCalls == 4

MaxActiveJobs == 3

ShutdownSteps ==
    <<"scheduleTicker.stop", "worker.close", "queue.close", "quit", "closeMongo">>

RedisConnections == {"redis", "workerRedis"}

started(step) == <<step, "started">>

completed(step) == <<step, "completed">>

\* if (shuttingDown) return
shutdownReturnsAtOnce(flag) == flag

ShutdownInit ==
    /\ IdleExceptShutdown
    /\ shuttingDown = FALSE
    /\ shutdownPc = "running"
    /\ shutdownLog = <<>>
    /\ quitsDone = {}
    /\ activeJobs = 0
    /\ timerArmed = TRUE
    /\ shutdownCalls = 0
    /\ firstBySignal = FALSE
    /\ exited = FALSE

\* the worker takes a job from the queue, until close() was called
ActiveJobStarts ==
    /\ ~exited
    /\ shutdownPc = "running"
    /\ activeJobs < MaxActiveJobs
    /\ activeJobs' = activeJobs + 1
    /\ UNCHANGED <<shuttingDown, shutdownPc, shutdownLog, quitsDone, timerArmed,
                   shutdownCalls, firstBySignal, exited, exceptShutdown>>

\* a job the worker is processing settles
ActiveJobSettles ==
    /\ ~exited
    /\ activeJobs > 0
    /\ activeJobs' = activeJobs - 1
    /\ UNCHANGED <<shuttingDown, shutdownPc, shutdownLog, quitsDone, timerArmed,
                   shutdownCalls, firstBySignal, exited, exceptShutdown>>

\* shutdown(), called directly or by the SIGINT / SIGTERM handler, up to its
\* first await; the handler's finally exits the process when the call returns
ShutdownCall(bySignal) ==
    /\ ~exited
    /\ shutdownCalls < MaxShutdownCalls
    /\ shutdownCalls' = shutdownCalls + 1
    /\ IF shutdownReturnsAtOnce(shuttingDown)
       THEN /\ exited' = bySignal
            /\ UNCHANGED <<shuttingDown, shutdownPc, shutdownLog, timerArmed,
                           firstBySignal>>
       ELSE /\ shuttingDown' = TRUE
            /\ timerArmed' = FALSE
            /\ shutdownLog' = shutdownLog \o
                   <<started("scheduleTicker.stop"), completed("scheduleTicker.stop"),
                     started("worker.close")>>
            /\ shutdownPc' = "worker.close"
            /\ firstBySignal' = bySignal
            /\ UNCHANGED exited
    /\ UNCHANGED <<quitsDone, activeJobs, exceptShutdown>>

\* await worker.close() resolves once the active jobs have settled; then
\* queue.close() is called
WorkerClosed ==
    /\ ~exited
    /\ shutdownPc = "worker.close"
    /\ activeJobs = 0
    /\ shutdownLog' = shutdownLog \o <<completed("worker.close"), started("queue.close")>>
    /\ shutdownPc' = "queue.close"
    /\ UNCHANGED <<shuttingDown, quitsDone, activeJobs, timerArmed, shutdownCalls,
                   firstBySignal, exited, exceptShutdown>>

\* await queue.close() resolves; Promise.all([redis.quit(), workerRedis.quit()])
QueueClosed ==
    /\ ~exited
    /\ shutdownPc = "queue.close"
    /\ shutdownLog' = shutdownLog \o <<completed("queue.close"), started("quit")>>
    /\ shutdownPc' = "quit"
    /\ UNCHANGED <<shuttingDown, quitsDone, activeJobs, timerArmed, shutdownCalls,
                   firstBySignal, exited, exceptShutdown>>

\* one of the two quit() promises resolves; after both, closeMongo(mongo)
RedisQuit(connection) ==
    /\ ~exited
    /\ shutdownPc = "quit"
    /\ connection \notin quitsDone
    /\ quitsDone' = quitsDone \cup {connection}
    /\ IF quitsDone' = RedisConnections
       THEN /\ shutdownLog' = shutdownLog \o <<completed("quit"), started("closeMongo")>>
            /\ shutdownPc' = "closeMongo"
       ELSE UNCHANGED <<shutdownLog, shutdownPc>>
    /\ UNCHANGED <<shuttingDown, activeJobs, timerArmed, shutdownCalls,
                   firstBySignal, exited, exceptShutdown>>

\* await closeMongo(mongo) resolves and shutdown() returns; the handler's
\* finally exits the process
MongoClosed ==
    /\ ~exited
    /\ shutdownPc = "closeMongo"
    /\ shutdownLog' = Append(shutdownLog, completed("closeMongo"))
    /\ shutdownPc' = "returned"
    /\ exited' = firstBySignal
    /\ UNCHANGED <<shuttingDown, quitsDone, activeJobs, timerArmed, shutdownCalls,
                   firstBySignal, exceptShutdown>>

ShutdownNext ==
    \/ ActiveJobStarts
    \/ ActiveJobSettles
    \/ \E bySignal \in BOOLEAN : ShutdownCall(bySignal)
    \/ WorkerClosed
    \/ QueueClosed
    \/ \E connection \in RedisConnections : RedisQuit(connection)
    \/ MongoClosed

SpecShutdown == ShutdownInit /\ [][ShutdownNext]_vars

timesIn(log, event) == Cardinality({i \in DOMAIN log : log[i] = event})

\* the shutdown sequence as far as it has come: the steps in their order,
\* each started after the one before it completed
orderedPrefix ==
    LET full == [i \in 1 .. 2 * Len(ShutdownSteps) |->
                    IF i % 2 = 1 THEN started(ShutdownSteps[(i + 1) \div 2])
                    ELSE completed(ShutdownSteps[i \div 2])]
    IN /\ Len(shutdownLog) <= Len(full)
       /\ \A i \in DOMAIN shutdownLog : shutdownLog[i] = full[i]

\* no call of shutdown is in progress and at least one was made
shutdownOver == shutdownCalls > 0 /\ (exited \/ shutdownPc = "returned")

\* C18: the steps of shutdown run in the order stop the ticker, close the
\* worker, close the queue, quit both Redis connections, close the datastore
\* connections, each starting after the previous one completed, and however
\* many times shutdown is called each step is executed exactly once.
C18_OrderedExactlyOnce ==
    /\ orderedPrefix
    /\ shutdownOver =>
           \A i \in DOMAIN ShutdownSteps :
               /\ timesIn(shutdownLog, started(ShutdownSteps[i])) = 1
               /\ timesIn(shutdownLog, completed(ShutdownSteps[i])) = 1

\* ---- C19 (on Spec)

\* the job's sourceCollection, trimmed and defaulted, fails the pattern or is
\* not in the configured allowlist
sourceCollectionRefused ==
    /\ report # NoJob
    /\ LET trimmed == trim(report.sourceCollection)
           collectionName == IF trimmed # <<>> THEN trimmed
                             ELSE COLLECTIONS_REPORT_SOURCE
       IN \/ ~SAFE_COLLECTION_NAME(collectionName)
          \/ collectionName \notin reportAllowedSourceCollections

\* C19 as stated: a job whose sourceCollection is refused ends with status
\* failed, and its activation queries no source collection and attempts no
\* upload. The failed write can itself fail.
C19_AsStated ==
    (Settled /\ sourceCollectionRefused) =>
        /\ noReadNoUpload
        /\ statusWrites # <<>>
        /\ lastStatusWrite.val.status = "failed"

\* C19: the activation of a job whose sourceCollection is refused queries no
\* source collection, attempts no upload and rejects; its last status write
\* is failed, with the message of the refusal or of the identity check that
\* ran before it, unless a status write itself failed (the activation then
\* rejects with the store's error, and the last status written is running, or
\* none when the running write was the one that failed).
C19_RefusedSourceCollectionFails ==
    (Settled /\ sourceCollectionRefused) =>
        /\ noReadNoUpload
        /\ outcome.kind = "rejected"
        /\ IF outcome.error = "jobs store unavailable"
           THEN statusWrites # <<>> => lastStatusWrite.val.status = "running"
           ELSE /\ lastStatusWrite.val.status = "failed"
                /\ lastStatusWrite.val.message = outcome.error
                /\ outcome.error \in
                       {"sourceCollection is not allowed",
                        "sourceCollection must match ^[A-Za-z0-9_]+$",
                        assertReadReplica([isWritablePrimary |-> TRUE])}

\* a job naming a collection outside the allowlist, refused on a replica and
\* recorded failed
C19_Witness ==
    /\ Settled
    /\ sourceCollectionRefused
    /\ ~helloSaidPrimary
    /\ pc = "idle"
    /\ jobDoc.status = "failed"
    /\ jobDoc.error = "sourceCollection is not allowed"

\* ---------------------------------------------------------------------------
\* SpecSanitize: one call of sanitizeFilters on a drawn input.
\* ---------------------------------------------------------------------------

SanitizeKeys == {Key("kind"), <<"$", "where">>, <<"meta", ".", "kind">>}

\* the values drawn for an entry, by name: a string, a sequence, a mapping
\* of one entry, a sequence holding such a mapping
SanitizeValueNames ==
    {<<"string">>, <<"sequence">>}
    \cup {<<"mapping">> \o k : k \in SanitizeKeys}
    \cup {<<"sequence of mapping">> \o k : k \in SanitizeKeys}

sanitizeValue(name) ==
    IF Head(name) = "string" THEN Str("x")
    ELSE IF Head(name) = "sequence" THEN Arr(<<>>)
    ELSE IF Head(name) = "mapping" THEN Obj(<<<<Tail(name), Str("x")>>>>)
    ELSE Arr(<<Obj(<<<<Tail(name), Str("x")>>>>)>>)

\* what a caller can pass, by shape: undefined, a string, a sequence, or a
\* mapping of up to two entries with distinct keys
SanitizeShapes ==
    [kind : {"undefined", "string", "sequence"},
     k1 : {<<>>}, v1 : {<<>>}, k2 : {<<>>}, v2 : {<<>>}]
    \cup [kind : {"mapping"}, k1 : {<<>>}, v1 : {<<>>}, k2 : {<<>>}, v2 : {<<>>}]
    \cup [kind : {"mapping"}, k1 : SanitizeKeys, v1 : SanitizeValueNames,
          k2 : {<<>>}, v2 : {<<>>}]
    \cup {sh \in [kind : {"mapping"}, k1 : SanitizeKeys, v1 : SanitizeValueNames,
                   k2 : SanitizeKeys, v2 : SanitizeValueNames] : sh.k1 # sh.k2}

sanitizeInput(shape) ==
    IF shape.kind = "undefined" THEN Undefined
    ELSE IF shape.kind = "string" THEN Str("x")
    ELSE IF shape.kind = "sequence"
         THEN Arr(<<Obj(<<<<Key("kind"), Str("x")>>>>)>>)
    ELSE IF shape.k1 = <<>> THEN Obj(<<>>)
    ELSE IF shape.k2 = <<>>
         THEN Obj(<<<<shape.k1, sanitizeValue(shape.v1)>>>>)
         ELSE Obj(<<<<shape.k1, sanitizeValue(shape.v1)>>,
                    <<shape.k2, sanitizeValue(shape.v2)>>>>)

SanitizeInit ==
    /\ IdleExceptSanitize
    /\ sanPc = "call"
    /\ \E shape \in SanitizeShapes : sanInput = sanitizeInput(shape)
    /\ sanResult = Undefined

SanitizeCall ==
    /\ sanPc = "call"
    /\ sanResult' = sanitizeFilters(sanInput)
    /\ sanPc' = "returned"
    /\ UNCHANGED <<sanInput, exceptSanitize>>

SpecSanitize == SanitizeInit /\ [][SanitizeCall]_vars

operatorKey(key) == startsWith(key, "$") \/ includes(key, ".")

\* no mapping inside value, the elements of sequences included, has a key
\* that starts with $ or contains a dot
RECURSIVE noOperatorKey(_)
noOperatorKey(value) ==
    IF value.t = "obj"
    THEN \A i \in DOMAIN value.v :
             ~operatorKey(value.v[i][1]) /\ noOperatorKey(value.v[i][2])
    ELSE IF value.t = "arr"
         THEN \A i \in DOMAIN value.v : noOperatorKey(value.v[i])
         ELSE TRUE

keysOf(value) == {value.v[i][1] : i \in DOMAIN value.v}

\* C20: no mapping anywhere in the output of sanitizeFilters, the mappings
\* that are elements of sequence values included, has a key that starts with
\* $ or contains a dot; an input that is not a mapping yields the empty
\* mapping; every key of the input that satisfies neither condition is kept.
C20_NoOperatorKeyAnywhere ==
    sanPc = "returned" =>
        /\ noOperatorKey(sanResult)
        /\ sanInput.t # "obj" => sanResult = Obj(<<>>)
        /\ sanInput.t = "obj" =>
               keysOf(sanResult) = {k \in keysOf(sanInput) : ~operatorKey(k)}

\* ==========================================================================
\* SpecIntake: the format fields (format, includeFormats, compression) of the
\* stored jobs and schedules, written by POST /v1/reports, POST and PATCH
\* /v1/report-schedules and by the schedule ticker.
\* ==========================================================================

\* PATCH requests of one behaviour; each does its read and then its write.
MaxIntakePatches == 2

\* Jobs one behaviour stores.
MaxIntakeJobs == 2

IntakeScheduleIds == {1}

IntakePatchIds == 1 .. MaxIntakePatches

\* A field that is absent from a body or a document is "" (a string field)
\* or <<>> with hasIncludeFormats = FALSE (includeFormats of a body).
IncludeLists == {<<>>, <<"csv">>, <<"csv", "pdf">>, <<"csv", "csv">>}

IncludeInputs ==
    {[has |-> FALSE, items |-> <<>>]} \cup {[has |-> TRUE, items |-> l] : l \in IncludeLists}

bodyOf(format, include, compression) ==
    [format |-> format, hasIncludeFormats |-> include.has,
     includeFormats |-> include.items, compression |-> compression]

CreateBodies ==
    {bodyOf(f, i, c) : f \in {"csv", "zip"}, i \in IncludeInputs, c \in {"", "none", "zip"}}

UpdateBodies ==
    {bodyOf(f, i, c) : f \in {"", "csv", "zip"}, i \in IncludeInputs, c \in {"", "none", "zip"}}

NoStored == [exists |-> FALSE, format |-> "", includeFormats |-> <<>>, compression |-> ""]

stored(format, includeFormats, compression) ==
    [exists |-> TRUE, format |-> format, includeFormats |-> includeFormats,
     compression |-> compression]

idlePatch == [pc |-> "idle", id |-> 0, existing |-> NoStored, nextState |-> NoStored, stale |-> FALSE]

\* z.array(...).min(1).optional()
includeFormatsSchema(body) == body.hasIncludeFormats => Len(body.includeFormats) >= 1

hasDuplicateValues(values) ==
    Cardinality({values[i] : i \in DOMAIN values}) # Len(values)

\* createReportSchema and createScheduleSchema: the same four refinements.
createReportSchema(body) ==
    /\ includeFormatsSchema(body)
    /\ ~(body.format = "zip" /\ Len(body.includeFormats) = 0)
    /\ ~(body.format # "zip" /\ Len(body.includeFormats) > 0)
    /\ ~(body.compression = "zip" /\ body.format = "zip")
    /\ ~hasDuplicateValues(body.includeFormats)

createScheduleSchema(body) ==
    /\ includeFormatsSchema(body)
    /\ ~(body.format = "zip" /\ Len(body.includeFormats) = 0)
    /\ ~(body.format # "zip" /\ Len(body.includeFormats) > 0)
    /\ ~(body.compression = "zip" /\ body.format = "zip")
    /\ ~hasDuplicateValues(body.includeFormats)

\* updateScheduleSchema: every field optional; the refinements see the
\* payload only.
updateScheduleSchema(body) ==
    /\ includeFormatsSchema(body)
    /\ ~(body.format = "zip" /\ Len(body.includeFormats) = 0)
    /\ ~(body.format # "" /\ body.format # "zip" /\ Len(body.includeFormats) > 0)
    /\ ~(body.compression = "zip" /\ body.format = "zip")
    /\ ~hasDuplicateValues(body.includeFormats)

\* { ...existing, ...payload }
mergeState(existing, payload) ==
    stored(IF payload.format # "" THEN payload.format ELSE existing.format,
           IF payload.hasIncludeFormats THEN payload.includeFormats
           ELSE existing.includeFormats,
           IF payload.compression # "" THEN payload.compression
           ELSE existing.compression)

mergedStateUnchecked(nextState) == TRUE

\* The four checks the PATCH route makes on the merged state.
mergedStateValid(nextState) ==
    /\ ~(nextState.format = "zip" /\ Len(nextState.includeFormats) = 0)
    /\ ~(nextState.format # "zip" /\ Len(nextState.includeFormats) > 0)
    /\ ~(nextState.compression = "zip" /\ nextState.format = "zip")
    /\ ~hasDuplicateValues(nextState.includeFormats)

jobOf(doc, origin) ==
    [format |-> doc.format, includeFormats |-> doc.includeFormats,
     compression |-> doc.compression, origin |-> origin]

IntakeInit ==
    /\ inSchedules = [id \in IntakeScheduleIds |-> NoStored]
    /\ inPatches = [p \in IntakePatchIds |-> idlePatch]
    /\ inDue = NoStored
    /\ inJobs = {}
    /\ IdleExceptIntake

\* POST /v1/reports: a body the schema refuses is answered 400 and stores
\* nothing.
IntakePostReport(body) ==
    /\ createReportSchema(body)
    /\ Cardinality(inJobs) < MaxIntakeJobs
    /\ inJobs' = inJobs \cup
                   {jobOf(stored(body.format, body.includeFormats, body.compression), "api")}
    /\ UNCHANGED <<inSchedules, inPatches, inDue, exceptIntake>>

\* POST /v1/report-schedules
IntakePostSchedule(id, body) ==
    /\ ~inSchedules[id].exists
    /\ createScheduleSchema(body)
    /\ inSchedules' = [inSchedules EXCEPT
                         ![id] = stored(body.format, body.includeFormats, body.compression)]
    /\ UNCHANGED <<inPatches, inDue, inJobs, exceptIntake>>

\* PATCH, first half: parse, findOne, merge, validate the merged state.
IntakePatchFindOne(p, id, payload) ==
    /\ inPatches[p].pc = "idle"
    /\ \A q \in IntakePatchIds : q < p => inPatches[q].pc # "idle"
    /\ updateScheduleSchema(payload)
    /\ inSchedules[id].exists
    /\ LET existing == inSchedules[id]
           nextState == mergeState(existing, payload)
       IN  /\ mergedStateValid(nextState)
           /\ inPatches' = [inPatches EXCEPT
                              ![p] = [pc |-> "read", id |-> id, existing |-> existing,
                                      nextState |-> nextState, stale |-> FALSE]]
    /\ UNCHANGED <<inSchedules, inDue, inJobs, exceptIntake>>

\* PATCH, second half: updateOne with $set of every field of nextState.
IntakePatchUpdateOne(p) ==
    /\ inPatches[p].pc = "read"
    /\ LET patch == inPatches[p]
       IN  /\ inSchedules' = [inSchedules EXCEPT ![patch.id] = patch.nextState]
           /\ inPatches' = [inPatches EXCEPT
                              ![p] = [idlePatch EXCEPT
                                        !.pc = "written",
                                        !.stale = (inSchedules[patch.id] # patch.existing)]]
    /\ UNCHANGED <<inDue, inJobs, exceptIntake>>

\* The ticker reads a due schedule.
IntakeTickFindOne(id) ==
    /\ ~inDue.exists
    /\ inSchedules[id].exists
    /\ inDue' = inSchedules[id]
    /\ UNCHANGED <<inSchedules, inPatches, inJobs, exceptIntake>>

\* The conditional advance matched: the job is inserted from the document
\* read before it.
IntakeTickInsertOne ==
    /\ inDue.exists
    /\ Cardinality(inJobs) < MaxIntakeJobs
    /\ inJobs' = inJobs \cup {jobOf(inDue, "schedule")}
    /\ inDue' = NoStored
    /\ UNCHANGED <<inSchedules, inPatches, exceptIntake>>

\* The conditional advance matched nothing: the firing is skipped.
IntakeTickSkip ==
    /\ inDue.exists
    /\ inDue' = NoStored
    /\ UNCHANGED <<inSchedules, inPatches, inJobs, exceptIntake>>

IntakeNext ==
    \/ \E body \in CreateBodies : IntakePostReport(body)
    \/ \E id \in IntakeScheduleIds, body \in CreateBodies : IntakePostSchedule(id, body)
    \/ \E p \in IntakePatchIds, id \in IntakeScheduleIds, payload \in UpdateBodies :
          IntakePatchFindOne(p, id, payload)
    \/ \E p \in IntakePatchIds : IntakePatchUpdateOne(p)
    \/ \E id \in IntakeScheduleIds : IntakeTickFindOne(id)
    \/ IntakeTickInsertOne
    \/ IntakeTickSkip

SpecIntake == IntakeInit /\ [][IntakeNext]_vars

formatRulesHold(doc) ==
    /\ (Len(doc.includeFormats) > 0) <=> (doc.format = "zip")
    /\ ~hasDuplicateValues(doc.includeFormats)
    /\ ~(doc.compression = "zip" /\ doc.format = "zip")

\* C21: every stored job and every stored schedule has includeFormats
\* non-empty exactly when its format is zip, no duplicate in includeFormats,
\* and never compression = zip together with format = zip, whatever the
\* requests and firings were, concurrent patches of one schedule included.
C21_FormatRulesStored ==
    /\ \A id \in IntakeScheduleIds :
          inSchedules[id].exists => formatRulesHold(inSchedules[id])
    /\ \A job \in inJobs : formatRulesHold(job)

\* Two patches of one schedule ran concurrently (one wrote over a state it had
\* not read), the schedule is an archive schedule with compression set, and
\* the ticker has stored an archive job from it next to a job of the API.
C21_Witness ==
    /\ \E p \in IntakePatchIds : inPatches[p].pc = "written" /\ inPatches[p].stale
    /\ \A p \in IntakePatchIds : inPatches[p].pc = "written"
    /\ \E id \in IntakeScheduleIds : inSchedules[id].format = "zip"
    /\ \E job \in inJobs : job.origin = "schedule" /\ job.format = "zip"
    /\ \E job \in inJobs : job.origin = "api" /\ job.compression = "zip"
\* ---- C25 (on Spec)

\* C25: whatever the output format, when the rows feeding the generator raise
\* while the stream is consumed, the stream ends with that error, so the
\* upload rejects, and the job is recorded failed when the activation ends.
C25_RowErrorFailsTheJob ==
    raised = "source cursor failed" =>
        /\ pc # "stalled"
        /\ caught # ""
        /\ Ended => jobDoc.status = "failed"

\* ---- C26 (on Spec)

\* The plan of the activation, as the claim names the four.
planOf(rep) ==
    IF rep.reduceSpec THEN "reduce"
    ELSE IF rep.format = "zip"
    THEN IF cfg.reportZipMultipassEnabled THEN "archive-multipass" ELSE "archive-snapshot"
    ELSE "raw"

\* writeSnapshot was called in the activation.
snapshotWritten == \E i \in DOMAIN actLog : actLog[i].kind = "snapshot"

\* The activation has passed the generator's set-up.
generatorSetUp == report # NoJob /\ pc \in {"uploading", "upload", "uploaded", "stalled"}

\* C26 as stated: the persisted processingStats name the plan (mode = reduce
\* only in the reduce plan, zipStrategy = multipass only in archive-multipass,
\* zipStrategy = snapshot only in archive-snapshot) and a snapshot file is
\* written in the archive-snapshot plan only.
C26_AsStated ==
    /\ jobDoc # NoJob /\ jobDoc.status = "uploaded" =>
          /\ jobDoc.processingStats.mode = "reduce" => planOf(jobDoc) = "reduce"
          /\ jobDoc.processingStats.zipStrategy = "multipass" =>
                planOf(jobDoc) = "archive-multipass"
          /\ jobDoc.processingStats.zipStrategy = "snapshot" =>
                planOf(jobDoc) = "archive-snapshot"
    /\ (report # NoJob /\ snapshotWritten) => planOf(report) = "archive-snapshot"

\* C26: the rows come from the reduce engine exactly when reduceSpec is
\* present, from one cursor per entry exactly when the format is zip with no
\* reduceSpec and multipass enabled, and from one raw cursor otherwise; the
\* snapshot file is written exactly when the format is zip and multipass is
\* not used, which includes a reduce job with format zip. The persisted
\* processingStats say so: mode = reduce iff reduceSpec is present,
\* zipStrategy = multipass iff the plan is archive-multipass, zipStrategy =
\* snapshot iff the format is zip otherwise, and no zipStrategy otherwise.
C26_PlanAndStats ==
    /\ jobDoc # NoJob /\ jobDoc.status = "uploaded" =>
          LET stats == jobDoc.processingStats
          IN  /\ stats.mode = (IF jobDoc.reduceSpec THEN "reduce" ELSE "raw")
              /\ stats.zipStrategy = "multipass" <=> planOf(jobDoc) = "archive-multipass"
              /\ stats.zipStrategy = "snapshot" <=>
                    (jobDoc.format = "zip" /\ planOf(jobDoc) # "archive-multipass")
              /\ stats.zipStrategy = "" <=> jobDoc.format # "zip"
    /\ generatorSetUp =>
          /\ snapshotWritten <=>
                (report.format = "zip" /\ planOf(report) # "archive-multipass")
          /\ (rowSource = "reduced") <=> (planOf(report) = "reduce")
          /\ (rowSource = "none") <=> (planOf(report) = "archive-multipass")
          /\ (rowSource = "raw") <=> (planOf(report) \in {"archive-snapshot", "raw"})

\* A reduce job with format zip was recorded uploaded with mode reduce and
\* zipStrategy snapshot, its snapshot written and removed.
C26_Witness ==
    /\ Ended
    /\ jobDoc # NoJob
    /\ jobDoc.status = "uploaded"
    /\ jobDoc.reduceSpec
    /\ jobDoc.format = "zip"
    /\ jobDoc.processingStats.mode = "reduce"
    /\ jobDoc.processingStats.zipStrategy = "snapshot"
    /\ snapshotWritten
    /\ cfg.reportZipMultipassEnabled

\* ---- C27 (on Spec)

\* The activation took the archive-multipass plan and recorded uploaded.
multipassUploaded ==
    /\ Ended
    /\ outcome.kind = "resolved"
    /\ report # NoJob
    /\ useZipMultipass(report)
    /\ jobDoc # NoJob
    /\ jobDoc.status = "uploaded"

\* The match of a cursor carries the bound _id <= maxObjectId.
boundedBy(match, maxObjectId) ==
    /\ maxObjectId # NoId
    /\ Len(match) = 2
    /\ match[2] = <<<<Key("_id"), [t |-> "lte", v |-> maxObjectId]>>>>

\* C27: an archive-multipass activation with n included formats reads the
\* source n + 1 times, first the probe of the maximum identifier and then one
\* cursor per format, every cursor bounded by the identifier the probe
\* found; rowsIn, rowsOut and rowCount are the number of rows of the first
\* pass alone.
C27_MultipassReadsAndCounts ==
    multipassUploaded =>
        LET n == Len(report.includeFormats)
            queries == sourceQueries
            maxObjectId == readDatasetMaxObjectId(report.tenantId, filters)
        IN  /\ Len(queries) = n + 1
            /\ queries[1].val.site = "maxId"
            /\ \A i \in 2 .. n + 1 :
                  /\ queries[i].val.site = "raw"
                  /\ boundedBy(queries[i].val.match, maxObjectId)
            /\ raised = "" =>
                  LET firstPass == Cardinality(find(queries[2].val.match))
                  IN  /\ jobDoc.processingStats.rowsIn = firstPass
                      /\ jobDoc.processingStats.rowsOut = firstPass
                      /\ jobDoc.rowCount = firstPass

\* ---- C28 (on SpecTicker)

\* The claims (matched conditional advances) a call of a ticker is working on.
claimsInProgress(atPc) ==
    {calls[tc].claim : tc \in {x \in DOMAIN calls : calls[x].pc = atPc}}

jobsOfClaim(k) == {i \in DOMAIN scheduledJobs : scheduledJobs[i].claim = k}

messagesOfJob(id) == {i \in DOMAIN enqueued : enqueued[i].data.reportJobId = id}

\* C28: with no failing store or queue operation, each firing a ticker has
\* claimed by its conditional advance is followed by the insert of exactly one
\* job (queued, progress 0, the tenant of the schedule read, artifact reason
\* PENDING) and then by exactly one message {reportJobId, tenantId} for that
\* job, with the job's identifier as dedupe id; no job is inserted before its
\* claim and no message is enqueued before its job.
C28_ClaimInsertEnqueue ==
    /\ \A k \in DOMAIN fired :
          /\ Cardinality(jobsOfClaim(k)) =
                (IF k \in claimsInProgress("insertOne") THEN 0 ELSE 1)
          /\ \A i \in jobsOfClaim(k) :
                LET job == scheduledJobs[i]
                IN  /\ job.schedule = fired[k].schedule
                    /\ job.firing = fired[k].firing
                    /\ job.status = "queued"
                    /\ job.progress = 0
                    /\ job.tenantId = scheduleTenant(fired[k].schedule)
                    /\ job.artifactReason = "PENDING"
                    /\ Cardinality(messagesOfJob(job._id)) =
                          (IF k \in claimsInProgress("add") THEN 0 ELSE 1)
    /\ \A i \in DOMAIN scheduledJobs :
          /\ scheduledJobs[i].claim \in DOMAIN fired
          /\ \A j \in DOMAIN scheduledJobs :
                scheduledJobs[i]._id = scheduledJobs[j]._id => i = j
    /\ \A m \in DOMAIN enqueued :
          \E i \in DOMAIN scheduledJobs :
             /\ scheduledJobs[i]._id = enqueued[m].data.reportJobId
             /\ scheduledJobs[i].tenantId = enqueued[m].data.tenantId
             /\ enqueued[m].jobId = scheduledJobs[i]._id
             /\ enqueued[m].attempts = Attempts

\* Two firings were claimed, each has its job and its message, and a third
\* claim is between its advance and its insert.
C28_Witness ==
    /\ Len(enqueued) >= 2
    /\ Len(scheduledJobs) = Len(enqueued)
    /\ Len(fired) = Len(scheduledJobs) + 1
    /\ claimsInProgress("insertOne") # {}

\* ---- C29 (on Spec)

\* C29: a pdf job whose generator is fed at most reportPdfMaxRows rows ends
\* uploaded when nothing else is raised; fed more rows, its stream fails with
\* the row-limit error at row reportPdfMaxRows + 1, the job ends failed and
\* the activation never writes uploaded.
C29_PdfRowLimitFailsTheJob ==
    (Ended /\ report # NoJob /\ report.format = "pdf" /\ uploadAttempted
           /\ raised # "source cursor failed") =>
        IF generatorRows(report, filters, rowSource) <= reportPdfMaxRows
        THEN /\ raised # "PDF row limit exceeded"
             /\ raised = "" => lastStatusWrite.val.status = "uploaded"
        ELSE /\ raised = "PDF row limit exceeded"
             /\ lastStatusWrite.val.status = "failed"
             /\ \A i \in DOMAIN statusWrites : statusWrites[i].val.status # "uploaded"

\* ===================================================================
\* SpecSnapshot: writeSnapshot and snapshotRows over one snapshot path.
\* ===================================================================

\* Largest number of rows handed to writeSnapshot.
MaxSnapshotRows == 3

\* The values of maxBytes: one line of the shortest kind, two lines of
\* different kinds, three lines of the longest kind.
SnapshotMaxBytes == {8, 19, 33}

\* The values a normalized row carries in its one field: finite numbers of
\* one and two digits, the one-character strings x (one UTF-8 byte) and
\* U+00E9 (two UTF-8 bytes, named by its code point), null, and a number
\* that is not finite.
numberValue(n) == [t |-> "number", n |-> n, s |-> ""]

stringValue(s) == [t |-> "string", n |-> 0, s |-> s]

nullValue == [t |-> "null", n |-> 0, s |-> ""]

nonFiniteValue == [t |-> "nonfinite", n |-> 0, s |-> ""]

SnapshotValues ==
    {numberValue(1), numberValue(12), stringValue("x"), stringValue("U+00E9"),
     nullValue, nonFiniteValue}

SnapshotRowSeqs ==
    UNION {[1..n -> {[v |-> val] : val \in SnapshotValues}] : n \in 0..MaxSnapshotRows}

\* JSON.stringify of a value, as the JSON value the text denotes: a number
\* that is not finite is written as null.
stringified(val) == IF val.t = "nonfinite" THEN nullValue ELSE val

\* Buffer.byteLength of a string of the model
utf8Bytes(s) == IF s = "U+00E9" THEN 2 ELSE 1

\* the bytes of the JSON text of a value
jsonBytes(val) ==
    CASE val.t = "number" -> IF val.n < 10 THEN 1 ELSE 2
      [] val.t = "string" -> utf8Bytes(val.s) + 2
      [] OTHER -> 4

\* `${JSON.stringify(row)}\n`, as the JSON object the line denotes
lineOf(row) == [v |-> stringified(row.v)]

\* Buffer.byteLength(line): braces, the key with its quotes and colon, the
\* value, the line feed
byteLength(line) == 2 + 4 + jsonBytes(line.v) + 1

\* JSON.parse(line)
jsonParse(line) == [v |-> line.v]

reachesMaxBytes(bytes, maxBytes) == bytes >= maxBytes

\* if (bytes > maxBytes) throw
exceedsMaxBytes(bytes, maxBytes) == bytes > maxBytes

sizeExceeded == "Temporary snapshot size exceeded REPORT_TMP_MAX_BYTES"

unsettled == [kind |-> "none", error |-> "", rowCount |-> 0, bytes |-> 0]

SnapshotInit ==
    /\ SnapshotIdle
    /\ IdleExceptSnapshot

\* mkdir, createWriteStream: the file is created and the locals start at 0
SnapshotCall(rows, maxBytes) ==
    /\ snPc = "idle"
    /\ snPc' = "rows"
    /\ snRows' = rows
    /\ snMaxBytes' = maxBytes
    /\ snExists' = TRUE
    /\ UNCHANGED <<snIndex, snBytes, snRowCount, snLines, snResult, snRead, snRm>>
    /\ UNCHANGED exceptSnapshot

\* one turn of for await (const row of rows)
SnapshotRow ==
    /\ snPc = "rows"
    /\ snIndex < Len(snRows)
    /\ LET line == lineOf(snRows[snIndex + 1])
           bytes == snBytes + byteLength(line)
       IN  /\ snIndex' = snIndex + 1
           /\ snBytes' = bytes
           /\ IF exceedsMaxBytes(bytes, snMaxBytes)
              THEN /\ snPc' = "catch"
                   /\ snResult' = [snResult EXCEPT !.error = sizeExceeded]
                   /\ UNCHANGED <<snLines, snRowCount>>
              ELSE /\ snLines' = Append(snLines, line)
                   /\ snRowCount' = snRowCount + 1
                   /\ UNCHANGED <<snPc, snResult>>
    /\ UNCHANGED <<snRows, snMaxBytes, snExists, snRead, snRm>>
    /\ UNCHANGED exceptSnapshot

\* the iterable throws instead of yielding its next row
SnapshotRowsThrow ==
    /\ snPc = "rows"
    /\ snPc' = "catch"
    /\ snResult' = [snResult EXCEPT !.error = "source cursor failed"]
    /\ UNCHANGED <<snRows, snMaxBytes, snIndex, snBytes, snRowCount, snExists, snLines, snRead, snRm>>
    /\ UNCHANGED exceptSnapshot

\* the iterable is exhausted: writer.end(), finish, return
SnapshotReturn ==
    /\ snPc = "rows"
    /\ snIndex = Len(snRows)
    /\ snPc' = "written"
    /\ snResult' = [kind |-> "ok", error |-> "", rowCount |-> snRowCount, bytes |-> snBytes]
    /\ UNCHANGED <<snRows, snMaxBytes, snIndex, snBytes, snRowCount, snExists, snLines, snRead, snRm>>
    /\ UNCHANGED exceptSnapshot

\* catch: writer.destroy(), rm with its error swallowed, rethrow
SnapshotCatch(ok) ==
    /\ snPc = "catch"
    /\ snPc' = "failed"
    /\ snExists' = rm(snExists, ok)
    /\ snRm' = IF ok THEN "ok" ELSE "failed"
    /\ snResult' = [snResult EXCEPT !.kind = "error"]
    /\ UNCHANGED <<snRows, snMaxBytes, snIndex, snBytes, snRowCount, snLines, snRead>>
    /\ UNCHANGED exceptSnapshot

\* snapshotRows: one line of the file parsed and yielded (writeSnapshot
\* writes no blank line, so none is skipped)
SnapshotReadRow ==
    /\ snPc \in {"written", "reading"}
    /\ Len(snRead) < Len(snLines)
    /\ snPc' = "reading"
    /\ snRead' = Append(snRead, jsonParse(snLines[Len(snRead) + 1]))
    /\ UNCHANGED <<snRows, snMaxBytes, snIndex, snBytes, snRowCount, snExists, snLines, snResult, snRm>>
    /\ UNCHANGED exceptSnapshot

\* snapshotRows: the end of the file
SnapshotReadEnd ==
    /\ snPc \in {"written", "reading"}
    /\ Len(snRead) = Len(snLines)
    /\ snPc' = "read"
    /\ UNCHANGED <<snRows, snMaxBytes, snIndex, snBytes, snRowCount, snExists, snLines, snResult, snRead, snRm>>
    /\ UNCHANGED exceptSnapshot

SnapshotNext ==
    \/ \E rows \in SnapshotRowSeqs, maxBytes \in SnapshotMaxBytes : SnapshotCall(rows, maxBytes)
    \/ SnapshotRow
    \/ SnapshotRowsThrow
    \/ SnapshotReturn
    \/ \E ok \in BOOLEAN : SnapshotCatch(ok)
    \/ SnapshotReadRow
    \/ SnapshotReadEnd

SpecSnapshot == SnapshotInit /\ [][SnapshotNext]_vars

\* ---- C30 (on SpecSnapshot)

RECURSIVE totalBytes(_, _)
\* the bytes of the lines of the first n rows
totalBytes(rows, n) ==
    IF n = 0 THEN 0 ELSE totalBytes(rows, n - 1) + byteLength(lineOf(rows[n]))

linesOf(rows, n) == [i \in 1..n |-> lineOf(rows[i])]

\* the first row whose line brings the cumulative bytes above maxBytes
firstExceeding(rows, maxBytes) ==
    CHOOSE k \in 1..Len(rows) :
        /\ totalBytes(rows, k) > maxBytes
        /\ \A j \in 1..(k - 1) : totalBytes(rows, j) <= maxBytes

snapshotSettled == snResult.kind # "none"

fitsMaxBytes == totalBytes(snRows, Len(snRows)) <= snMaxBytes

lastOf(seq) == seq[Len(seq)]

hasEntries(artifact) == "entries" \in DOMAIN artifact

\* C31: the key and the entries of an uploaded job's artifact follow from
\* format and compression: an archive job has a key ending in report.zip and
\* the entries report.<ext> of its includeFormats, in that order; a
\* non-archive job with compression zip has a key ending in report.zip and
\* the single entry report.<ext> of its format; any other job has a key
\* ending in report.<ext> of its format and no entries.
C31_KeyAndEntriesFollowFormat ==
    (jobDoc # NoJob /\ jobDoc.status = "uploaded") =>
        LET artifact == jobDoc.artifact
        IN  IF jobDoc.format = "zip"
            THEN /\ lastOf(artifact.key) = "report.zip"
                 /\ hasEntries(artifact)
                 /\ Len(artifact.entries) = Len(jobDoc.includeFormats)
                 /\ \A i \in DOMAIN jobDoc.includeFormats :
                        artifact.entries[i] = "report." \o jobDoc.includeFormats[i]
            ELSE IF jobDoc.compression = "zip"
                 THEN /\ lastOf(artifact.key) = "report.zip"
                      /\ hasEntries(artifact)
                      /\ artifact.entries = <<"report." \o jobDoc.format>>
                 ELSE /\ lastOf(artifact.key) = "report." \o jobDoc.format
                      /\ ~hasEntries(artifact)

\* A json job compressed as zip, stored by the filesystem adapter and ended
\* uploaded with its one entry.
C31_Witness ==
    /\ Ended
    /\ jobDoc # NoJob
    /\ jobDoc.status = "uploaded"
    /\ jobDoc.format = "json"
    /\ jobDoc.compression = "zip"
    /\ jobDoc.artifact.available
    /\ hasEntries(jobDoc.artifact)
    /\ jobDoc.artifact.entries = <<"report.json">>
    /\ lastOf(jobDoc.artifact.key) = "report.zip"

\* ===================================================================
\* SpecLifecycle: start, stop and tickNow of one schedule ticker, with the
\* timer's callbacks; runSchedulesTick is a loop of passes that returns or
\* raises.
\* ===================================================================

\* Largest number of entries of lcLog.
MaxLifecycleEvents == 6

\* Largest number of passes of one tick's loop.
MaxPasses == 2

noTick == [pc |-> "none", origin |-> "none", passes |-> 0]

runningKeptWhenThrown(flag, threw) == threw

\* finally { running = false }
runningAfterTick(flag, threw) == FALSE

\* tickNow() called by origin: if (running) return; else running = true and
\* runSchedulesTick starts
tickNowCalled(origin) ==
    IF lcRunning
    THEN /\ lcLog' = Append(lcLog, "skip:" \o origin)
         /\ UNCHANGED <<lcRunning, lcTick>>
    ELSE /\ lcRunning' = TRUE
         /\ lcTick' = [pc |-> "loop", origin |-> origin, passes |-> 0]
         /\ lcLog' = Append(lcLog, "tick:" \o origin)

LifecycleInit ==
    /\ LifecycleIdle
    /\ IdleExceptLifecycle

\* start(): if (!timer) timer = setInterval(...); await tickNow()
LifecycleStart ==
    /\ Len(lcLog) + 1 < MaxLifecycleEvents
    /\ lcStart # "awaiting"
    /\ lcTimer' = TRUE
    /\ lcIntervals' = IF lcTimer THEN lcIntervals ELSE lcIntervals + 1
    /\ LET armed == IF lcTimer THEN lcLog ELSE Append(lcLog, "arm")
       IN  IF lcRunning
           THEN /\ lcLog' = Append(armed, "skip:start")
                /\ lcStart' = "resolved"
                /\ UNCHANGED <<lcRunning, lcTick>>
           ELSE /\ lcRunning' = TRUE
                /\ lcTick' = [pc |-> "loop", origin |-> "start", passes |-> 0]
                /\ lcLog' = Append(armed, "tick:start")
                /\ lcStart' = "awaiting"
    /\ UNCHANGED exceptLifecycle

\* the interval's callback: void tickNow().catch(() => undefined)
LifecycleTimerFires ==
    /\ Len(lcLog) < MaxLifecycleEvents
    /\ lcIntervals > 0
    /\ tickNowCalled("timer")
    /\ UNCHANGED <<lcTimer, lcIntervals, lcStart>>
    /\ UNCHANGED exceptLifecycle

\* tickNow() called through the ticker's interface
LifecycleTickNow ==
    /\ Len(lcLog) < MaxLifecycleEvents
    /\ tickNowCalled("call")
    /\ UNCHANGED <<lcTimer, lcIntervals, lcStart>>
    /\ UNCHANGED exceptLifecycle

\* one pass of while (true) that continues
LifecyclePass ==
    /\ lcTick.pc = "loop"
    /\ lcTick.passes < MaxPasses
    /\ lcTick' = [lcTick EXCEPT !.passes = lcTick.passes + 1]
    /\ UNCHANGED <<lcTimer, lcIntervals, lcRunning, lcStart, lcLog>>
    /\ UNCHANGED exceptLifecycle

\* runSchedulesTick returns (no due schedule) or raises (the store or the
\* queue failed): catch logs and rethrows, finally clears the flag, and the
\* start() that awaited the tick settles with it
LifecycleTickEnds(threw) ==
    /\ lcTick.pc = "loop"
    /\ Len(lcLog) < MaxLifecycleEvents
    /\ lcRunning' = runningAfterTick(lcRunning, threw)
    /\ lcTick' = noTick
    /\ lcLog' = Append(lcLog, IF threw THEN "end:error" ELSE "end:ok")
    /\ lcStart' = IF lcTick.origin = "start"
                  THEN IF threw THEN "rejected" ELSE "resolved"
                  ELSE lcStart
    /\ UNCHANGED <<lcTimer, lcIntervals>>
    /\ UNCHANGED exceptLifecycle

\* stop(): if (timer) { clearInterval(timer); timer = null }
LifecycleStop ==
    /\ Len(lcLog) < MaxLifecycleEvents
    /\ lcLog' = Append(lcLog, "stop")
    /\ IF lcTimer
       THEN /\ lcIntervals' = lcIntervals - 1
            /\ lcTimer' = FALSE
       ELSE UNCHANGED <<lcTimer, lcIntervals>>
    /\ UNCHANGED <<lcRunning, lcTick, lcStart>>
    /\ UNCHANGED exceptLifecycle

LifecycleNext ==
    \/ LifecycleStart
    \/ LifecycleTimerFires
    \/ LifecycleTickNow
    \/ LifecyclePass
    \/ \E threw \in BOOLEAN : LifecycleTickEnds(threw)
    \/ LifecycleStop

SpecLifecycle == LifecycleInit /\ [][LifecycleNext]_vars

\* ---- C32 (on SpecLifecycle)

\* the positions of lcLog that hold the event
positionsOf(event) == {i \in DOMAIN lcLog : lcLog[i] = event}

\* C32: start() arms the timer only after its first tick has run to
\* completion; a second start() arms no second timer; after stop() no
\* timer-driven tick starts, and a tick in flight at stop() still ends.
C32_StartTicksThenArms ==
    /\ \A a \in positionsOf("arm") :
           \E s \in positionsOf("tick:start") :
               \E e \in positionsOf("end:ok") \cup positionsOf("end:error") :
                   s < e /\ e < a
    /\ lcIntervals <= 1
    /\ \A s \in positionsOf("stop") : \A t \in positionsOf("tick:timer") :
           s < t => \E a \in positionsOf("arm") : s < a /\ a < t

\* ---- C39 (on SpecLifecycle)

tickStarts == positionsOf("tick:start") \cup positionsOf("tick:timer") \cup positionsOf("tick:call")

tickEnds == positionsOf("end:ok") \cup positionsOf("end:error")

tickSkipped == positionsOf("skip:start") \cup positionsOf("skip:timer") \cup positionsOf("skip:call")

\* a tick was in flight when the event at position i happened
inFlightAt(i) ==
    \E s \in tickStarts : s < i /\ \A e \in tickEnds : ~(s < e /\ e < i)

\* C39: the re-entrancy flag is set exactly while a tick is in flight: every
\* tick clears it when it ends, with or without an error, so a tickNow
\* returns without running the loop only while another tick is in flight.
C39_FlagClearedAfterEveryTick ==
    /\ lcRunning <=> lcTick.pc = "loop"
    /\ \A i \in tickSkipped : inFlightAt(i)

\* A tick ended with an error and a later tickNow ran the loop.
C39_Witness ==
    \E e \in positionsOf("end:error") :
        \E s \in positionsOf("tick:call") \cup positionsOf("tick:timer") : e < s

\* ===================================================================
\* SpecEnqueue: the creation of a job and of its queue message, by passes of
\* the ticker's loop over one schedule and by POST /v1/reports, where every
\* call of the stores and of the queue can fail.
\* ===================================================================

\* The operations: 1 and 2 are passes of runSchedulesTick (of two tick
\* calls), 3 is a POST /v1/reports request.
EnqueueOps == {1, 2, 3}

kindOf(o) == IF o = 3 THEN "post" ELSE "tick"

\* The occurrences of the schedule that are due while the model runs.
MaxFirings == 2

idleOp == [pc |-> "idle", firing |-> 0, reportJobId |-> 0]

endedOp(o) == eqOps[o].pc \in {"done", "failed"}

EnqueueInit ==
    /\ IdleExceptEnqueue
    /\ eqNextRunAt = 1
    /\ eqOps = [o \in EnqueueOps |-> idleOp]
    /\ eqFired = <<>>
    /\ eqJobs = <<>>
    /\ eqQueue = <<>>

\* const due = await schedulesCollection.findOne(...): the pass ends when no
\* schedule is due, and the tick is rejected when the store fails
EnqueueTickFindOne(o, ok) ==
    /\ kindOf(o) = "tick"
    /\ eqOps[o].pc = "idle"
    /\ eqOps' = [eqOps EXCEPT ![o] =
           IF ~ok THEN [idleOp EXCEPT !.pc = "failed"]
           ELSE IF eqNextRunAt > MaxFirings THEN [idleOp EXCEPT !.pc = "done"]
           ELSE [pc |-> "findOneAndUpdate", firing |-> eqNextRunAt, reportJobId |-> 0]]
    /\ UNCHANGED <<eqNextRunAt, eqFired, eqJobs, eqQueue>>
    /\ UNCHANGED exceptEnqueue

\* the conditional advance of nextRunAt; if (!updated) continue
EnqueueTickAdvance(o, ok) ==
    /\ eqOps[o].pc = "findOneAndUpdate"
    /\ IF ~ok
       THEN /\ eqOps' = [eqOps EXCEPT ![o].pc = "failed"]
            /\ UNCHANGED <<eqNextRunAt, eqFired>>
       ELSE IF eqNextRunAt = eqOps[o].firing
            THEN /\ eqNextRunAt' = eqNextRunAt + 1
                 /\ eqFired' = Append(eqFired, [op |-> o, firing |-> eqOps[o].firing])
                 /\ eqOps' = [eqOps EXCEPT ![o].pc = "insertOne"]
            ELSE /\ eqOps' = [eqOps EXCEPT ![o] = [idleOp EXCEPT !.pc = "done"]]
                 /\ UNCHANGED <<eqNextRunAt, eqFired>>
    /\ UNCHANGED <<eqJobs, eqQueue>>
    /\ UNCHANGED exceptEnqueue

\* POST /v1/reports past its validation: the document is built
EnqueuePostReport(o) ==
    /\ kindOf(o) = "post"
    /\ eqOps[o].pc = "idle"
    /\ eqOps' = [eqOps EXCEPT ![o].pc = "insertOne"]
    /\ UNCHANGED <<eqNextRunAt, eqFired, eqJobs, eqQueue>>
    /\ UNCHANGED exceptEnqueue

\* await jobsCollection.insertOne({ _id: new ObjectId(), status: 'queued', ... })
EnqueueInsertOne(o, ok) ==
    /\ eqOps[o].pc = "insertOne"
    /\ IF ok
       THEN /\ eqJobs' = Append(eqJobs, [_id |-> Len(eqJobs) + 1, status |-> "queued",
                                         op |-> o, firing |-> eqOps[o].firing])
            /\ eqOps' = [eqOps EXCEPT ![o].pc = "add",
                                      ![o].reportJobId = Len(eqJobs) + 1]
       ELSE /\ eqOps' = [eqOps EXCEPT ![o].pc = "failed"]
            /\ UNCHANGED eqJobs
    /\ UNCHANGED <<eqNextRunAt, eqFired, eqQueue>>
    /\ UNCHANGED exceptEnqueue

\* await queue.add(REPORT_QUEUE_NAME, { reportJobId, tenantId }, { jobId, ... })
EnqueueAdd(o, ok) ==
    /\ eqOps[o].pc = "add"
    /\ IF ok
       THEN /\ eqQueue' = Append(eqQueue, [reportJobId |-> eqOps[o].reportJobId,
                                           firing |-> eqOps[o].firing])
            /\ eqOps' = [eqOps EXCEPT ![o].pc = "done"]
       ELSE /\ eqOps' = [eqOps EXCEPT ![o].pc = "failed"]
            /\ UNCHANGED eqQueue
    /\ UNCHANGED <<eqNextRunAt, eqFired, eqJobs>>
    /\ UNCHANGED exceptEnqueue

EnqueueNext ==
    \/ \E o \in EnqueueOps, ok \in BOOLEAN : EnqueueTickFindOne(o, ok)
    \/ \E o \in EnqueueOps, ok \in BOOLEAN : EnqueueTickAdvance(o, ok)
    \/ \E o \in EnqueueOps : EnqueuePostReport(o)
    \/ \E o \in EnqueueOps, ok \in BOOLEAN : EnqueueInsertOne(o, ok)
    \/ \E o \in EnqueueOps, ok \in BOOLEAN : EnqueueAdd(o, ok)

SpecEnqueue == EnqueueInit /\ [][EnqueueNext]_vars

\* ---- C33 (on SpecEnqueue)

hasMessage(job) == \E m \in DOMAIN eqQueue : eqQueue[m].reportJobId = job._id

\* C33: once an operation has ended, every job it left in state queued has a
\* queue message, and every occurrence whose nextRunAt it advanced has a
\* message enqueued for it.
C33_InsertAndEnqueueAllOrNothing ==
    /\ \A j \in DOMAIN eqJobs :
           (endedOp(eqJobs[j].op) /\ eqJobs[j].status = "queued") => hasMessage(eqJobs[j])
    /\ \A f \in DOMAIN eqFired :
           endedOp(eqFired[f].op) =>
               \E j \in DOMAIN eqJobs :
                   /\ eqJobs[j].op = eqFired[f].op
                   /\ eqJobs[j].firing = eqFired[f].firing
                   /\ hasMessage(eqJobs[j])

\* ---- C34 (on SpecTicker)

\* the payload names none of cron, timezone and enabled
namesNoTiming(payload) == payload.cron = "" /\ payload.enabled = ""

\* the write of a PATCH whose payload names none of the three fields
neutralPatchWrites(p) ==
    /\ patches[p].pc = "updateOne"
    /\ patches'[p].pc = "done"
    /\ namesNoTiming(patches[p].payload)

firedTwice ==
    \E i, j \in DOMAIN fired :
        /\ i < j
        /\ fired[i].schedule = fired[j].schedule
        /\ fired[i].firing = fired[j].firing

\* C34: the write of a PATCH that names none of cron, timezone and enabled
\* leaves nextRunAt as it stands in the store, whatever a ticker did between
\* the PATCH's read and its write, and with only such PATCHes no occurrence
\* of a schedule is claimed twice.
C34_NeutralPatchKeepsNextRunAt ==
    /\ [][\A p \in DOMAIN patches :
              neutralPatchWrites(p) =>
                  schedules'[patches[p]._id].nextRunAt =
                      schedules[patches[p]._id].nextRunAt]_vars
    /\ []((\A p \in DOMAIN patches : namesNoTiming(patches[p].payload)) => ~firedTwice)

\* ---- C35 (on SpecReduce)

\* C35: once a range worker has failed and the reduce call has rejected, no
\* worker of the call starts another range aggregation and none folds
\* another partial row into the accumulator.
C35_NoWorkAfterRejection ==
    [][rdCall = "rejected" => (aggLog' = aggLog /\ accumulator' = accumulator)]_vars

\* ---- C36 (on SpecShutdown)

\* C36: the process has exited only when the shutdown sequence has run to
\* its end: the worker drained and closed, the queue, both Redis connections
\* and the datastore connections closed.
C36_ExitOnlyAfterShutdown ==
    exited =>
        /\ shutdownPc = "returned"
        /\ activeJobs = 0
        /\ \A i \in DOMAIN ShutdownSteps :
               timesIn(shutdownLog, completed(ShutdownSteps[i])) = 1

\* ===================================================================
\* SpecMultipass: the probe and the per-format passes of one
\* archive-multipass job of tenant A without filters, while writers insert
\* documents with new, larger identifiers.
\* ===================================================================

\* Largest identifier of a source document.
MaxMultipassId == 4

\* Number of included formats of the job: one pass each.
MultipassEntries == 2

docsOf(ids) == {SourceDoc(id, "A", "x") : id \in ids}

\* the datastore's evaluation of a match over the collection as it stands
findIn(ids, match) == {doc \in docsOf(ids) : matches(doc, match)}

\* readDatasetMaxObjectId over the collection as it stands
probeMaxObjectId(ids, tenantId, filterObj) ==
    LET found == idsOf(findIn(ids, <<baseMatch(tenantId, filterObj)>>))
    IN  IF found = {} THEN NoId ELSE SetMax(found)

MultipassInit ==
    /\ IdleExceptMultipass
    /\ mpDocs \in SUBSET (1 .. MaxMultipassId)
    /\ mpPc = "probe"
    /\ mpMaxObjectId = NoId
    /\ mpPasses = <<>>

\* a writer inserts a document; its new identifier is larger than every
\* identifier of the collection
MultipassInsert(id) ==
    /\ mpPc # "idle"
    /\ \A present \in mpDocs : id > present
    /\ mpDocs' = mpDocs \cup {id}
    /\ UNCHANGED <<mpPc, mpMaxObjectId, mpPasses>>
    /\ UNCHANGED exceptMultipass

\* const maxObjectId = await readDatasetMaxObjectId(...)
MultipassProbe ==
    /\ mpPc = "probe"
    /\ mpMaxObjectId' = probeMaxObjectId(mpDocs, "A", Obj(<<>>))
    /\ mpPc' = "passes"
    /\ UNCHANGED <<mpDocs, mpPasses>>
    /\ UNCHANGED exceptMultipass

\* the archive reads the next entry: rawRowsFromCollection opens its cursor
\* and yields the matching rows
MultipassPass ==
    /\ mpPc = "passes"
    /\ mpPasses' = Append(mpPasses,
           idsOf(findIn(mpDocs, rawMatch("A", Obj(<<>>), mpMaxObjectId))))
    /\ mpPc' = IF Len(mpPasses) + 1 = MultipassEntries THEN "done" ELSE "passes"
    /\ UNCHANGED <<mpDocs, mpMaxObjectId>>
    /\ UNCHANGED exceptMultipass

MultipassNext ==
    \/ \E id \in 1 .. MaxMultipassId : MultipassInsert(id)
    \/ MultipassProbe
    \/ MultipassPass

SpecMultipass == MultipassInit /\ [][MultipassNext]_vars

\* ---- C37 (on SpecMultipass)

\* C37: whatever the collection holds when the probe runs, nothing included,
\* and whatever writers insert afterwards with larger identifiers, every
\* pass of the job reads the same rows.
C37_PassesReadTheSameRows ==
    \A i, j \in DOMAIN mpPasses : mpPasses[i] = mpPasses[j]

\* ---------------------------------------------------------------------------
\* C40 (on SpecTicker): the jobs of one tick
\* ---------------------------------------------------------------------------

patchWritten == \E p \in DOMAIN patches : patches[p].pc = "done"

inLoop(tc) == calls[tc].pc # "idle"

====
